---- MODULE Spec2Model ----
\* Model of the offline coincidence sorter, coincidence_sorter.py:
\* sort_coincidences(singles_file, output_file, time_window_ns, offset_ns).
\* Times are float64 values in nanoseconds; times + offset_ns and t2 - t1
\* are rounded to the nearest float as numpy rounds them.
\* Indices i, j and sort_idx are 0-based as in the source; At() reads an
\* array at a 0-based index.
EXTENDS Integers, Sequences, FiniteSets, TLC

VARIABLES
    branches,        \* the table read from the singles file (lines 27-31)
    time_window_ns,  \* parameter
    offset_ns,       \* parameter
    pc,              \* position in sort_coincidences
    times, eventIDs, energies, posX, posY, posZ, volumeIDs, trackIDs, runIDs,
    sort_idx,        \* np.argsort(times)
    times_shifted,
    coincidences,    \* list of coincidence dicts
    i, j, t1, n_singles,
    pairs,           \* history: the (i, j) of every append, in order
    output_file,     \* the table written to output_file, or NoFile
    result,          \* the returned count, or NoResult
    out_path,        \* parameter output_file: the path written to
    singles_exists,  \* whether the singles file exists
    fs,              \* the output files on disk: path -> table or NoFile
    printed,         \* the report lines printed so far
    argsort_memo,    \* {what np.argsort returned for these times}, or NoMemo
    main_pc,         \* position in main, "none" when main is not running
    n_prompt, n_delay,
    calls,           \* history: the calls of sort_coincidences made by main
    stats1, stats2,  \* arguments of assert_stats
    tolerance,       \* argument of assert_stats, in hundredths: tolerance * 100
    track_types_flag,
    variant,         \* which of the assert_stats definitions is called
    is_ok,           \* value returned by assert_stats (FALSE before the call)
    stats_pc,        \* position in assert_stats, "none" when not running
    emitted,         \* history: the coincidence list of every returned pass
    visits,          \* history: per outer iteration, the records its for loop
                     \* has examined
    material,        \* test003_g4material_verify.py: the state of main
    verify           \* ut_ver / test004 / test008: the state of main

driverVars == <<main_pc, n_prompt, n_delay, calls>>

statsVars == <<stats1, stats2, tolerance, track_types_flag, variant, is_ok,
               stats_pc, material, verify>>

vars == <<branches, time_window_ns, offset_ns, pc, times, eventIDs, energies,
          posX, posY, posZ, volumeIDs, trackIDs, runIDs, sort_idx,
          times_shifted, coincidences, i, j, t1, n_singles, pairs,
          output_file, result, out_path, singles_exists, fs, printed,
          argsort_memo, driverVars, statsVars, emitted, visits>>

arrays == <<times, eventIDs, energies, posX, posY, posZ, volumeIDs, trackIDs,
            runIDs, sort_idx>>

----------------------------------------------------------------------------
\* Bounds of the model.
MaxLen == 3      \* most singles in a bounded input
MaxTime == 2     \* GlobalTime of a bounded input ranges over 0..MaxTime
MaxW == 1        \* bounded windows range over 0..MaxW
MaxCount == 2    \* events, tracks and steps of a Stats range over 0..MaxCount

\* Program constants.
time_window == 120   \* main: time_window = 120
delay_offset == 500  \* main: delay_offset = 500

Detectors == {1, 2}
\* Windows of the bounded inputs: the empty window and MaxW; the example
\* scenarios and main run with time_window.
Windows == {0, MaxW}
Offsets == {0, delay_offset}

\* A path holding no table.
NoFile == <<>>
NoResult == 0 - 1
NoMemo == {}
NoStats == <<>>
\* A script that is not running.
NoScript == [pc |-> "none"]

\* main: the two output paths.
prompt_output == "output/coincidences.root"
delay_output == "output/delay.root"
OutputPaths == {prompt_output, delay_output}

----------------------------------------------------------------------------
\* Integer helpers

\* np.zeros(len(times), dtype=int)
Zeros(n) == [k \in 1..n |-> 0]

Abs(x) == IF x < 0 THEN 0 - x ELSE x

----------------------------------------------------------------------------
\* Float arithmetic (IEEE 754 binary64, round half to even) of Python and
\* numpy, as far as the sorter and the statistics comparison use it:
\* float + int, float - float, int / int, float * int, float - int, abs
\* and the comparisons.
\*
\* A natural number of any size is the sequence of its binary digits, least
\* significant first, without leading zeros.  A float is the record
\* [s, m, e] that stands for s * m * 2^e: s is the sign (1, -1, or 0 for
\* zero), m an odd natural number of at most 53 digits, e an integer; every
\* float has one such record, so equal floats are equal records.

Highest(S) == CHOOSE k \in S : \A h \in S : h <= k

Lowest(S) == CHOOSE k \in S : \A h \in S : k <= h

Trim(b) ==
    LET ones == { k \in 1..Len(b) : b[k] = 1 }
    IN  IF ones = {} THEN <<>> ELSE SubSeq(b, 1, Highest(ones))

RECURSIVE NatBits(_)
NatBits(n) == IF n = 0 THEN <<>> ELSE <<n % 2>> \o NatBits(n \div 2)

BitAt(b, k) == IF k <= Len(b) THEN b[k] ELSE 0

\* The operations below work on the digits lo..hi of their arguments, given
\* the carry c into digit lo, and yield the digits d of the result with the
\* carry c out of digit hi; a range of several digits is done in two halves.

\* a + b
RECURSIVE AddRange(_, _, _, _, _)
AddRange(a, b, lo, hi, c) ==
    IF lo > hi THEN [d |-> <<>>, c |-> c]
    ELSE IF lo = hi
    THEN LET t == BitAt(a, lo) + BitAt(b, lo) + c
         IN  [d |-> <<t % 2>>, c |-> t \div 2]
    ELSE LET mid == (lo + hi) \div 2
             low == AddRange(a, b, lo, mid, c)
             high == AddRange(a, b, mid + 1, hi, low.c)
         IN  [d |-> low.d \o high.d, c |-> high.c]

AddBits(a, b) ==
    LET r == AddRange(a, b, 1, IF Len(a) < Len(b) THEN Len(b) ELSE Len(a), 0)
    IN  IF r.c = 1 THEN Append(r.d, 1) ELSE r.d

\* a - b for a >= b, c the borrow
RECURSIVE SubRange(_, _, _, _, _)
SubRange(a, b, lo, hi, c) ==
    IF lo > hi THEN [d |-> <<>>, c |-> c]
    ELSE IF lo = hi
    THEN LET t == BitAt(a, lo) - BitAt(b, lo) - c
         IN  [d |-> <<t % 2>>, c |-> IF t < 0 THEN 1 ELSE 0]
    ELSE LET mid == (lo + hi) \div 2
             low == SubRange(a, b, lo, mid, c)
             high == SubRange(a, b, mid + 1, hi, low.c)
         IN  [d |-> low.d \o high.d, c |-> high.c]

SubBits(a, b) == Trim(SubRange(a, b, 1, Len(a), 0).d)

\* -1, 0 or 1 as a < b, a = b or a > b
CmpBits(a, b) ==
    IF Len(a) # Len(b)
    THEN IF Len(a) < Len(b) THEN 0 - 1 ELSE 1
    ELSE LET differ == { k \in 1..Len(a) : a[k] # b[k] }
         IN  IF differ = {} THEN 0
             ELSE IF a[Highest(differ)] < b[Highest(differ)] THEN 0 - 1
             ELSE 1

\* a * n for a small natural number n
RECURSIVE MulRange(_, _, _, _, _)
MulRange(a, n, lo, hi, c) ==
    IF lo > hi THEN [d |-> <<>>, c |-> c]
    ELSE IF lo = hi
    THEN LET t == a[lo] * n + c
         IN  [d |-> <<t % 2>>, c |-> t \div 2]
    ELSE LET mid == (lo + hi) \div 2
             low == MulRange(a, n, lo, mid, c)
             high == MulRange(a, n, mid + 1, hi, low.c)
         IN  [d |-> low.d \o high.d, c |-> high.c]

MulBits(a, n) ==
    LET r == MulRange(a, n, 1, Len(a), 0) IN Trim(r.d \o NatBits(r.c))

\* a * 2^k
ShiftLeft(a, k) == IF a = <<>> THEN <<>> ELSE Zeros(k) \o a

\* Long division of n by the small number b, from digit hi of n down to
\* digit lo, c the remainder: the digits of the quotient, most significant
\* first, and the remainder left.
RECURSIVE DivRange(_, _, _, _, _)
DivRange(n, b, hi, lo, c) ==
    IF lo > hi THEN [d |-> <<>>, c |-> c]
    ELSE IF lo = hi
    THEN LET t == 2 * c + n[lo]
         IN  IF t >= b THEN [d |-> <<1>>, c |-> t - b]
                       ELSE [d |-> <<0>>, c |-> t]
    ELSE LET mid == (lo + hi) \div 2
             high == DivRange(n, b, hi, mid + 1, c)
             low == DivRange(n, b, mid, lo, high.c)
         IN  [d |-> high.d \o low.d, c |-> low.c]

Reverse(b) == [k \in 1..Len(b) |-> b[Len(b) + 1 - k]]

FloatZero == [s |-> 0, m |-> <<>>, e |-> 0]

\* What int / int leaves when the divisor is 0: ZeroDivisionError, which
\* every later operation passes on.
ZeroDivisionError == [s |-> 0, m |-> <<>>, e |-> 1]

Canonical(s, m, e) ==
    LET ones == { k \in 1..Len(m) : m[k] = 1 }
    IN  IF ones = {} THEN FloatZero
        ELSE [s |-> s, m |-> SubSeq(m, Lowest(ones), Highest(ones)),
              e |-> e + Lowest(ones) - 1]

\* The float nearest to s * m * 2^e, ties to the even one.
RoundToFloat(s, m, e) ==
    LET d == Len(m) - 53
    IN  IF d <= 0
        THEN Canonical(s, m, e)
        ELSE LET kept == SubSeq(m, d + 1, Len(m))
                 sticky == \E k \in 1..(d - 1) : m[k] = 1
                 up == m[d] = 1 /\ (sticky \/ kept[1] = 1)
             IN  Canonical(s, IF up THEN AddBits(kept, <<1>>) ELSE kept,
                           e + d)

\* float(n) of an int n
FloatOfInt(n) == RoundToFloat(IF n < 0 THEN 0 - 1 ELSE 1, NatBits(Abs(n)), 0)

\* a / b of two ints, 0 <= a and 0 <= b < 2^30: the quotient is carried to more
\* than 55 digits, with one more digit, below them, for a remainder that is
\* not 0, and rounded once.
FloatDiv(a, b) ==
    IF b = 0
    THEN ZeroDivisionError
    ELSE LET k == 54 + Len(NatBits(b))
             n == ShiftLeft(NatBits(a), k)
             q == DivRange(n, b, Len(n), 1, 0)
         IN  RoundToFloat(1,
                          Trim(<<IF q.c # 0 THEN 1 ELSE 0>> \o Reverse(q.d)),
                          0 - k - 1)

\* x * n of a float and an int n > 0
FloatMul(x, n) ==
    IF x = ZeroDivisionError THEN x
    ELSE RoundToFloat(x.s, MulBits(x.m, n), x.e)

FloatNeg(x) == [x EXCEPT !.s = 0 - @]

FloatAbs(x) == [x EXCEPT !.s = @ * @]

\* x + y of two floats
FloatAdd(x, y) ==
    IF x = ZeroDivisionError \/ y = ZeroDivisionError THEN ZeroDivisionError
    ELSE IF x.s = 0 THEN y
    ELSE IF y.s = 0 THEN x
    ELSE LET e == IF x.e < y.e THEN x.e ELSE y.e
             mx == ShiftLeft(x.m, x.e - e)
             my == ShiftLeft(y.m, y.e - e)
             c == CmpBits(mx, my)
         IN  IF x.s = y.s THEN RoundToFloat(x.s, AddBits(mx, my), e)
             ELSE IF c = 0 THEN FloatZero
             ELSE IF c > 0 THEN RoundToFloat(x.s, SubBits(mx, my), e)
             ELSE RoundToFloat(y.s, SubBits(my, mx), e)

\* x - n of a float and an int
FloatSub(x, n) == FloatAdd(x, FloatNeg(FloatOfInt(n)))

\* x <= y of two floats
FloatLeq(x, y) ==
    /\ x # ZeroDivisionError /\ y # ZeroDivisionError
    /\ FloatAdd(x, FloatNeg(y)).s <= 0

\* n * 2^k for a natural number n, rounded to a float: exact when n has at
\* most 53 digits.
Dyadic(n, k) == RoundToFloat(1, NatBits(n), k)

\* np.array([...], dtype=float64) of whole numbers
FloatArray(ns) == [k \in 1..Len(ns) |-> FloatOfInt(ns[k])]

\* The real number x + y of two floats, not rounded: the record [s, m, e]
\* with m odd and of any length.
ExactAdd(x, y) ==
    IF x.s = 0 THEN y
    ELSE IF y.s = 0 THEN x
    ELSE LET e == IF x.e < y.e THEN x.e ELSE y.e
             mx == ShiftLeft(x.m, x.e - e)
             my == ShiftLeft(y.m, y.e - e)
             c == CmpBits(mx, my)
         IN  IF x.s = y.s THEN Canonical(x.s, AddBits(mx, my), e)
             ELSE IF c = 0 THEN FloatZero
             ELSE IF c > 0 THEN Canonical(x.s, SubBits(mx, my), e)
             ELSE Canonical(y.s, SubBits(my, mx), e)

\* The sign of the real number x - y: -1, 0 or 1.
Sign(x, y) == ExactAdd(x, FloatNeg(y)).s

\* The real number |y - x|, not rounded.
ExactDistance(x, y) == FloatAbs(ExactAdd(y, FloatNeg(x)))

----------------------------------------------------------------------------
\* Inputs: the branches of the Singles_main_window tree.  GlobalTime and
\* PostStepUniqueVolumeID are drawn from the bounded sets; every other branch
\* identifies the entry it belongs to (entry k carries EventID k, ...).
Entry(n, base) == [k \in 1..n |-> base + (k - 1)]

MkBranches(ts, vs, hasRun) ==
    LET n == Len(ts)
        req == [GlobalTime |-> ts,
                EventID |-> Entry(n, 0),
                TotalEnergyDeposit |-> Entry(n, 100),
                PostPosition_X |-> Entry(n, 10),
                PostPosition_Y |-> Entry(n, 20),
                PostPosition_Z |-> Entry(n, 30),
                PostStepUniqueVolumeID |-> vs,
                TrackID |-> Entry(n, 40)]
    IN  IF hasRun THEN req @@ [RunID |-> Entry(n, 50)] ELSE req

\* Detector identifiers are only compared with each other (line 89), so the
\* first entry of a bounded input is put on detector 1.
DetectorRows(n) == { vs \in [1..n -> Detectors] : n >= 1 => vs[1] = 1 }

\* GlobalTime is a float64 branch (nanoseconds); the bounded inputs carry
\* whole numbers of nanoseconds.
BoundedTimes == { FloatOfInt(t) : t \in 0..MaxTime }

\* The RunID branch is optional; inputs without it are enumerated up to
\* MaxLen - 1 entries.
BoundedSingles ==
    UNION { { MkBranches(ts, vs, hasRun) :
                ts \in [1..n -> BoundedTimes], vs \in DetectorRows(n),
                hasRun \in IF n < MaxLen THEN BOOLEAN ELSE {TRUE} } :
            n \in 0..MaxLen }

\* The branches read unconditionally (lines 34-47) and the optional one
\* (line 50).
RequiredFields == {"GlobalTime", "EventID", "TotalEnergyDeposit",
                   "PostPosition_X", "PostPosition_Y", "PostPosition_Z",
                   "PostStepUniqueVolumeID", "TrackID"}

AllFields == RequiredFields \cup {"RunID"}

\* branches['X'] raises KeyError when the tree has no branch X.
MalformedStrict(b) == AllFields \ DOMAIN b # {}

Malformed(b) == RequiredFields \ DOMAIN b # {}

\* A tree without branch f.
Drop(b, f) == [k \in DOMAIN b \ {f} |-> b[k]]

\* The four-single example scenario of the specification.
ExampleSingles ==
    MkBranches(FloatArray(<<0, 50, 1000, 1080>>), <<1, 2, 1, 2>>, TRUE)

\* The same-detector-skip example scenario.
SkipSingles == MkBranches(FloatArray(<<0, 10, 15>>), <<1, 1, 2>>, TRUE)

\* Two singles on different detectors whose times are not whole numbers of
\* nanoseconds, so that times + offset_ns (line 70) or t2 - t1 (line 84) is
\* rounded: with u = 2^-46, the spacing of the floats next to time_window,
\*   0 and time_window + u:               time_window + u apart, which
\*       the sum with delay_offset rounds to time_window apart;
\*   3/4 u and time_window + u:           time_window + u/4 apart, which the
\*       difference rounds to time_window;
\*   5 u and time_window + 5 u:           time_window apart, which the sums
\*       with delay_offset round to time_window + 4 u apart.
RoundedTimes ==
    { <<FloatZero, FloatAdd(FloatOfInt(time_window), Dyadic(1, 0 - 46))>>,
      <<Dyadic(3, 0 - 48),
        FloatAdd(FloatOfInt(time_window), Dyadic(1, 0 - 46))>>,
      <<Dyadic(5, 0 - 46),
        FloatAdd(FloatOfInt(time_window), Dyadic(5, 0 - 46))>> }

RoundedSingles == { MkBranches(ts, <<1, 2>>, TRUE) : ts \in RoundedTimes }

\* Inputs that lack one required branch.
MalformedSingles ==
    { Drop(b, f) : b \in {SkipSingles, Drop(SkipSingles, "RunID")},
                   f \in RequiredFields }

----------------------------------------------------------------------------
\* The float64 operations of the sorter on the values that occur in the
\* inputs above are computed once and kept in tables; on any other value
\* the operation is computed where it is used.
Tabulated(f) == IF f = f THEN f ELSE f

Values(f) == { f[q] : q \in DOMAIN f }

Lookup(f, q, other) == IF q \in DOMAIN f THEN f[q] ELSE other

InputTimes ==
    BoundedTimes
    \cup UNION { { b.GlobalTime[k] : k \in DOMAIN b.GlobalTime } :
                  b \in {ExampleSingles, SkipSingles} \cup RoundedSingles }

KnownOffsets == Offsets \cup {0, delay_offset}

KnownWindows == Windows \cup {time_window}

\* x + off of a float64 and an int
Sums ==
    Tabulated([q \in InputTimes \X KnownOffsets |->
                 FloatAdd(q[1], FloatOfInt(q[2]))])

Sum(x, off) == Lookup(Sums, <<x, off>>, FloatAdd(x, FloatOfInt(off)))

ShiftedTimes == Values(Sums)

\* abs(y - x) of two float64
Differences ==
    Tabulated([q \in { <<x, y>> : x, y \in ShiftedTimes } |->
                 FloatAbs(FloatAdd(q[2], FloatNeg(q[1])))])

Difference(x, y) ==
    Lookup(Differences, <<x, y>>, FloatAbs(FloatAdd(y, FloatNeg(x))))

\* The real numbers x + off and |y - x|, not rounded.
ExactSums ==
    Tabulated([q \in InputTimes \X KnownOffsets |->
                 ExactAdd(q[1], FloatOfInt(q[2]))])

ExactSum(x, off) == Lookup(ExactSums, <<x, off>>, ExactAdd(x, FloatOfInt(off)))

Distances ==
    Tabulated([q \in { <<x, y>> : x, y \in InputTimes } |->
                 ExactDistance(q[1], q[2])])

Distance(x, y) == Lookup(Distances, <<x, y>>, ExactDistance(x, y))

\* How a number d, a float64 or a real distance, compares with an int w:
\* -1 for d < w, 0 for d == w, 1 for d > w.
Comparisons ==
    Tabulated([q \in (Values(Differences) \cup Values(Distances))
                       \X KnownWindows |->
                 Sign(q[1], FloatOfInt(q[2]))])

Against(d, w) == Lookup(Comparisons, <<d, w>>, Sign(d, FloatOfInt(w)))

\* How two float64 compare: -1 for x < y, 0 for x == y, 1 for x > y.  The
\* table gives each value the number of values smaller than it.
Smaller(S) == [x \in S |-> Cardinality({ y \in S : Sign(y, x) < 0 })]

Ordinals == Tabulated(Smaller(InputTimes \cup ShiftedTimes))

CompareIn(f, x, y, other) ==
    IF x \in DOMAIN f /\ y \in DOMAIN f
    THEN (IF f[x] < f[y] THEN 0 - 1 ELSE IF f[x] = f[y] THEN 0 ELSE 1)
    ELSE other

Compare(x, y) == CompareIn(Ordinals, x, y, Sign(x, y))

----------------------------------------------------------------------------
\* Helpers translating the numpy operations.
At(arr, k) == arr[k + 1]

\* arr[sort_idx]: fancy indexing.
TakeInPlace(arr, idx) == arr

Take(arr, idx) == [k \in 1..Len(idx) |-> At(arr, idx[k])]

\* What arr[sort_idx] leaves in the table read from the file: fancy indexing
\* returns copies, the arrays held by branches stay as they were read.
SortedInPlace(b, idx) == [b EXCEPT !.GlobalTime = Take(b.GlobalTime, idx)]

SourceAfterSort(b, idx) == b

\* np.argsort(times) with the default kind ('quicksort', not stable): any
\* permutation of 0..n-1 that puts the times in non-decreasing order.  The
\* sort only compares the times with each other: Ranks gives each entry the
\* number of entries smaller than it, and two entries compare as their ranks.
Ranks(ts) ==
    <<>> \o [k \in 1..Len(ts) |->
               Cardinality({ h \in 1..Len(ts) : Compare(ts[h], ts[k]) < 0 })]

ArgsortDescending(ts) ==
    LET r == Ranks(ts)
    IN  { p \in [1..Len(ts) -> 0..(Len(ts) - 1)] :
            /\ \A a, b \in 1..Len(ts) : a # b => p[a] # p[b]
            /\ \A a, b \in 1..Len(ts) : a < b => At(r, p[a]) >= At(r, p[b]) }

ArgsortIdentity(ts) == { [k \in 1..Len(ts) |-> k - 1] }

Argsort(ts) ==
    LET r == Ranks(ts)
    IN  { p \in [1..Len(ts) -> 0..(Len(ts) - 1)] :
            /\ \A a, b \in 1..Len(ts) : a # b => p[a] # p[b]
            /\ \A a, b \in 1..Len(ts) : a < b => At(r, p[a]) <= At(r, p[b]) }

\* np.argsort is a deterministic function of its argument: a second call on
\* the same times returns what the first returned.
ArgsortFresh(ts) == Argsort(ts)

ArgsortResult(ts) ==
    IF argsort_memo = NoMemo THEN Argsort(ts) ELSE argsort_memo

\* times + offset_ns
\* (float64 array + int: each sum rounded to the nearest float)
AddOffsetFirstOnly(ts, off) ==
    [k \in 1..Len(ts) |-> IF k = 1 THEN Sum(ts[k], off) ELSE ts[k]]

AddOffset(ts, off) == [k \in 1..Len(ts) |-> Sum(ts[k], off)]

\* while i < n_singles - 1
LoopCondInclusive(ii, n) == ii <= n - 1

LoopCond(ii, n) == ii < n - 1

\* time_diff = abs(t2 - t1): the difference of two float64 values, rounded
\* to the nearest float
TimeDiff(a, b) == Difference(a, b)

\* if time_diff <= time_window_ns (a float64 against an int)
WithinWindowStrict(d, w) == Against(d, w) < 0

WithinWindowAlways(d, w) == TRUE

WithinWindow(d, w) == Against(d, w) <= 0

\* if volumeIDs[i] != volumeIDs[j]
DifferentDetectorsAlways(a, b) == TRUE

DifferentDetectors(a, b) == a # b

\* elif time_diff > time_window_ns
BeyondWindow(d, w) == Against(d, w) > 0

\* The coincidence dict built for sorted records ii and jj (lines 91-116).
CoincShifted(ii, jj) ==
    [time1 |-> At(times_shifted, ii), time2 |-> At(times_shifted, jj),
     eventID1 |-> At(eventIDs, ii), eventID2 |-> At(eventIDs, jj),
     energy1 |-> At(energies, ii), energy2 |-> At(energies, jj),
     globalPosX1 |-> At(posX, ii), globalPosY1 |-> At(posY, ii),
     globalPosZ1 |-> At(posZ, ii),
     globalPosX2 |-> At(posX, jj), globalPosY2 |-> At(posY, jj),
     globalPosZ2 |-> At(posZ, jj),
     volumeID1 |-> At(volumeIDs, ii), volumeID2 |-> At(volumeIDs, jj),
     runID |-> At(runIDs, ii),
     trackID1 |-> At(trackIDs, ii), trackID2 |-> At(trackIDs, jj),
     comptonPhantom1 |-> 0, comptonPhantom2 |-> 0,
     RayleighPhantom1 |-> 0, RayleighPhantom2 |-> 0,
     sourceID1 |-> 0, sourceID2 |-> 0]

CoincNoPlaceholders(ii, jj) ==
    [time1 |-> At(times, ii), time2 |-> At(times, jj),
     eventID1 |-> At(eventIDs, ii), eventID2 |-> At(eventIDs, jj),
     energy1 |-> At(energies, ii), energy2 |-> At(energies, jj),
     globalPosX1 |-> At(posX, ii), globalPosY1 |-> At(posY, ii),
     globalPosZ1 |-> At(posZ, ii),
     globalPosX2 |-> At(posX, jj), globalPosY2 |-> At(posY, jj),
     globalPosZ2 |-> At(posZ, jj),
     volumeID1 |-> At(volumeIDs, ii), volumeID2 |-> At(volumeIDs, jj),
     runID |-> At(runIDs, ii),
     trackID1 |-> At(trackIDs, ii), trackID2 |-> At(trackIDs, jj)]

CoincSourceFromEvent(ii, jj) ==
    [time1 |-> At(times, ii), time2 |-> At(times, jj),
     eventID1 |-> At(eventIDs, ii), eventID2 |-> At(eventIDs, jj),
     energy1 |-> At(energies, ii), energy2 |-> At(energies, jj),
     globalPosX1 |-> At(posX, ii), globalPosY1 |-> At(posY, ii),
     globalPosZ1 |-> At(posZ, ii),
     globalPosX2 |-> At(posX, jj), globalPosY2 |-> At(posY, jj),
     globalPosZ2 |-> At(posZ, jj),
     volumeID1 |-> At(volumeIDs, ii), volumeID2 |-> At(volumeIDs, jj),
     runID |-> At(runIDs, ii),
     trackID1 |-> At(trackIDs, ii), trackID2 |-> At(trackIDs, jj),
     comptonPhantom1 |-> 0, comptonPhantom2 |-> 0,
     RayleighPhantom1 |-> 0, RayleighPhantom2 |-> 0,
     sourceID1 |-> At(eventIDs, ii), sourceID2 |-> At(eventIDs, jj)]

Coinc(ii, jj) ==
    [time1 |-> At(times, ii), time2 |-> At(times, jj),
     eventID1 |-> At(eventIDs, ii), eventID2 |-> At(eventIDs, jj),
     energy1 |-> At(energies, ii), energy2 |-> At(energies, jj),
     globalPosX1 |-> At(posX, ii), globalPosY1 |-> At(posY, ii),
     globalPosZ1 |-> At(posZ, ii),
     globalPosX2 |-> At(posX, jj), globalPosY2 |-> At(posY, jj),
     globalPosZ2 |-> At(posZ, jj),
     volumeID1 |-> At(volumeIDs, ii), volumeID2 |-> At(volumeIDs, jj),
     runID |-> At(runIDs, ii),
     trackID1 |-> At(trackIDs, ii), trackID2 |-> At(trackIDs, jj),
     comptonPhantom1 |-> 0, comptonPhantom2 |-> 0,
     RayleighPhantom1 |-> 0, RayleighPhantom2 |-> 0,
     sourceID1 |-> 0, sourceID2 |-> 0]

\* coincidences.append(coinc)
Prepend(list, c) == <<c>> \o list

KeepLast(list, c) == <<c>>

AppendCoinc(list, c) == Append(list, c)

\* Where control goes after the append: break leaves the for loop (line 118).
AfterMatchContinue == "inner"

AfterMatch == "advance"

\* Where control goes when record j is within the window but on the same
\* detector: neither branch breaks, the for loop goes on to j + 1.
AfterSameDetectorBreak == "advance"

AfterSameDetector == "inner"

\* i += 1 (line 123), whatever the for loop found.
NextIAfterPartner(ii) ==
    IF Len(pairs) > 0 /\ pairs[Len(pairs)][1] = ii
    THEN pairs[Len(pairs)][2] + 1
    ELSE ii + 1

NextI(ii) == ii + 1

\* coinc_dict = {key: np.array([c[key] for c in coincidences]) ...}
CoincDict(list) ==
    [key \in DOMAIN list[1] |-> [k \in 1..Len(list) |-> list[k][key]]]

\* The lines printed at the end of the pass (lines 128-142).
WriteReportSilent(list) ==
    IF Len(list) > 0
    THEN <<"Total coincidences found", "Writing coincidences to",
           "Successfully wrote">>
    ELSE <<"Total coincidences found">>

WriteReport(list) ==
    IF Len(list) > 0
    THEN <<"Total coincidences found", "Writing coincidences to",
           "Successfully wrote">>
    ELSE <<"Total coincidences found", "No coincidences found!">>

----------------------------------------------------------------------------
\* assert_stats is not running.
StatsIdle ==
    /\ stats1 = NoStats /\ stats2 = NoStats /\ tolerance = 0
    /\ track_types_flag = FALSE /\ variant = "none"
    /\ is_ok = FALSE /\ stats_pc = "none"
    /\ material = NoScript /\ verify = NoScript

Init ==
    /\ \/ /\ branches \in BoundedSingles
          /\ time_window_ns \in Windows
          /\ offset_ns \in Offsets
       \/ /\ branches \in {ExampleSingles, SkipSingles} \cup RoundedSingles
                          \cup MalformedSingles
          /\ time_window_ns = time_window
          /\ offset_ns \in {0, delay_offset}
    /\ pc = "read"
    /\ times = <<>> /\ eventIDs = <<>> /\ energies = <<>>
    /\ posX = <<>> /\ posY = <<>> /\ posZ = <<>>
    /\ volumeIDs = <<>> /\ trackIDs = <<>> /\ runIDs = <<>>
    /\ sort_idx = <<>>
    /\ times_shifted = <<>>
    /\ coincidences = <<>>
    /\ i = 0 /\ j = 0 /\ t1 = FloatZero /\ n_singles = 0
    /\ pairs = <<>>
    /\ output_file = NoFile
    /\ result = NoResult
    /\ out_path = prompt_output
    /\ singles_exists = TRUE
    /\ fs = [f \in OutputPaths |-> NoFile]
    /\ printed = <<>>
    /\ argsort_memo = NoMemo
    /\ main_pc = "none" /\ n_prompt = NoResult /\ n_delay = NoResult
    /\ calls = <<>>
    /\ emitted = <<>>
    /\ visits = <<>>
    /\ StatsIdle

\* Lines 27-55: read the branches of the tree into the per-field arrays.
Read ==
    /\ pc = "read"
    /\ IF ~singles_exists \/ Malformed(branches)
       THEN \* uproot.open or branches[...] raises: the function is left
            /\ pc' = "raised"
            /\ UNCHANGED <<times, eventIDs, energies, posX, posY, posZ,
                           volumeIDs, trackIDs, runIDs>>
       ELSE /\ times' = branches.GlobalTime
            /\ eventIDs' = branches.EventID
            /\ energies' = branches.TotalEnergyDeposit
            /\ posX' = branches.PostPosition_X
            /\ posY' = branches.PostPosition_Y
            /\ posZ' = branches.PostPosition_Z
            /\ volumeIDs' = branches.PostStepUniqueVolumeID
            /\ trackIDs' = branches.TrackID
            /\ runIDs' = IF "RunID" \in DOMAIN branches
                         THEN branches.RunID
                         ELSE Zeros(Len(branches.GlobalTime))
            /\ pc' = "sort"
    /\ UNCHANGED <<branches, time_window_ns, offset_ns, sort_idx,
                   times_shifted, coincidences, i, j, t1, n_singles, pairs,
                   output_file, result>>
    /\ UNCHANGED <<out_path, singles_exists, fs, printed, argsort_memo, driverVars, statsVars,
                   emitted, visits>>

\* Lines 58-67: argsort the times and reorder every array by sort_idx.
Sort ==
    /\ pc = "sort"
    /\ \E idx \in ArgsortResult(times) :
         /\ sort_idx' = idx
         /\ argsort_memo' = {idx}
         /\ times' = Take(times, idx)
         /\ eventIDs' = Take(eventIDs, idx)
         /\ energies' = Take(energies, idx)
         /\ posX' = Take(posX, idx)
         /\ posY' = Take(posY, idx)
         /\ posZ' = Take(posZ, idx)
         /\ volumeIDs' = Take(volumeIDs, idx)
         /\ trackIDs' = Take(trackIDs, idx)
         /\ runIDs' = Take(runIDs, idx)
         /\ branches' = SourceAfterSort(branches, idx)
    /\ pc' = "shift"
    /\ UNCHANGED <<time_window_ns, offset_ns, times_shifted,
                   coincidences, i, j, t1, n_singles, pairs, output_file,
                   result>>
    /\ UNCHANGED <<out_path, singles_exists, fs, printed, driverVars, statsVars,
                   emitted, visits>>

\* Lines 70-75: shift the times, start the scan.
Shift ==
    /\ pc = "shift"
    /\ times_shifted' = AddOffset(times, offset_ns)
    /\ coincidences' = <<>>
    /\ i' = 0
    /\ n_singles' = Len(times)
    /\ pc' = "while"
    /\ UNCHANGED <<branches, time_window_ns, offset_ns, arrays, j, t1, pairs,
                   output_file, result>>
    /\ UNCHANGED <<out_path, singles_exists, fs, printed, argsort_memo, driverVars, statsVars,
                   emitted, visits>>

\* Lines 78-82: the while test; entering the body reads t1 and starts the
\* for loop at j = i + 1.
While ==
    /\ pc = "while"
    /\ IF LoopCond(i, n_singles)
       THEN /\ t1' = At(times_shifted, i)
            /\ j' = i + 1
            /\ visits' = Append(visits, 0)
            /\ pc' = "inner"
       ELSE /\ pc' = "write"
            /\ UNCHANGED <<t1, j, visits>>
    /\ UNCHANGED <<branches, time_window_ns, offset_ns, arrays,
                   times_shifted, coincidences, i, n_singles, pairs,
                   output_file, result>>
    /\ UNCHANGED <<out_path, singles_exists, fs, printed, argsort_memo, driverVars, statsVars,
                   emitted>>

\* Lines 82-121: one iteration of the for loop over j (or its exhaustion).
Inner ==
    /\ pc = "inner"
    /\ IF j >= n_singles
       THEN /\ pc' = "advance"
            /\ UNCHANGED <<j, coincidences, pairs, visits>>
       ELSE /\ visits' = [visits EXCEPT ![Len(visits)] = @ + 1]
            /\ LET t2 == At(times_shifted, j)
                   time_diff == TimeDiff(t1, t2)
               IN  IF WithinWindow(time_diff, time_window_ns)
                   THEN IF DifferentDetectors(At(volumeIDs, i),
                                              At(volumeIDs, j))
                        THEN /\ coincidences' =
                                    AppendCoinc(coincidences, Coinc(i, j))
                             /\ pairs' = Append(pairs, <<i, j>>)
                             /\ pc' = AfterMatch
                             /\ j' = IF pc' = "inner" THEN j + 1 ELSE j
                        ELSE /\ pc' = AfterSameDetector
                             /\ j' = IF pc' = "inner" THEN j + 1 ELSE j
                             /\ UNCHANGED <<coincidences, pairs>>
                   ELSE IF BeyondWindow(time_diff, time_window_ns)
                        THEN /\ pc' = "advance"
                             /\ UNCHANGED <<j, coincidences, pairs>>
                        ELSE /\ pc' = "inner"
                             /\ j' = j + 1
                             /\ UNCHANGED <<coincidences, pairs>>
    /\ UNCHANGED <<branches, time_window_ns, offset_ns, arrays,
                   times_shifted, i, t1, n_singles, output_file, result>>
    /\ UNCHANGED <<out_path, singles_exists, fs, printed, argsort_memo, driverVars, statsVars,
                   emitted>>

\* Line 123: i += 1.
Advance ==
    /\ pc = "advance"
    /\ i' = NextI(i)
    /\ pc' = "while"
    /\ UNCHANGED <<branches, time_window_ns, offset_ns, arrays,
                   times_shifted, coincidences, j, t1, n_singles, pairs,
                   output_file, result>>
    /\ UNCHANGED <<out_path, singles_exists, fs, printed, argsort_memo, driverVars, statsVars,
                   emitted, visits>>

\* Lines 128-142: write the table when there is at least one coincidence.
Write ==
    /\ pc = "write"
    /\ output_file' = IF Len(coincidences) > 0
                      THEN [Coincidences |-> CoincDict(coincidences)]
                      ELSE output_file
    /\ fs' = IF Len(coincidences) > 0
             THEN [fs EXCEPT ![out_path] =
                      [Coincidences |-> CoincDict(coincidences)]]
             ELSE fs
    /\ printed' = printed \o WriteReport(coincidences)
    /\ pc' = "return"
    /\ UNCHANGED <<branches, time_window_ns, offset_ns, arrays,
                   times_shifted, coincidences, i, j, t1, n_singles, pairs,
                   result>>
    /\ UNCHANGED <<out_path, singles_exists, argsort_memo, driverVars, statsVars,
                   emitted, visits>>

\* Line 144: return len(coincidences).
Return ==
    /\ pc = "return"
    /\ result' = Len(coincidences)
    /\ pc' = "done"
    /\ UNCHANGED <<branches, time_window_ns, offset_ns, arrays,
                   times_shifted, coincidences, i, j, t1, n_singles, pairs,
                   output_file>>
    /\ UNCHANGED <<out_path, singles_exists, fs, printed, argsort_memo, driverVars, statsVars>>
    /\ emitted' = Append(emitted, coincidences)
    /\ UNCHANGED visits

Next == Read \/ Sort \/ Shift \/ While \/ Inner \/ Advance \/ Write \/ Return

Spec == Init /\ [][Next]_vars

----------------------------------------------------------------------------
\* main(): the prompt pass, then the delayed pass, over the same singles file.

sorterLocals == <<times, eventIDs, energies, posX, posY, posZ, volumeIDs,
                  trackIDs, runIDs, sort_idx, times_shifted, coincidences,
                  i, j, t1, n_singles, pairs, output_file, result, visits>>

\* A fresh frame of sort_coincidences.
FreshLocals ==
    /\ times' = <<>> /\ eventIDs' = <<>> /\ energies' = <<>>
    /\ posX' = <<>> /\ posY' = <<>> /\ posZ' = <<>>
    /\ volumeIDs' = <<>> /\ trackIDs' = <<>> /\ runIDs' = <<>>
    /\ sort_idx' = <<>>
    /\ times_shifted' = <<>>
    /\ coincidences' = <<>>
    /\ i' = 0 /\ j' = 0 /\ t1' = FloatZero /\ n_singles' = 0
    /\ pairs' = <<>>
    /\ output_file' = NoFile
    /\ result' = NoResult
    /\ visits' = <<>>

\* sort_coincidences(singles_file, path, time_window_ns=w, offset_ns=off)
Call(path, w, off) ==
    /\ FreshLocals
    /\ pc' = "read"
    /\ out_path' = path
    /\ time_window_ns' = w
    /\ offset_ns' = off
    /\ calls' = Append(calls, [output_file |-> path, time_window_ns |-> w,
                                offset_ns |-> off])

\* if not Path(singles_file).exists()
MissingNever(exists) == FALSE

Missing(exists) == ~exists

\* The offset of the second pass (line 180).
SecondOffsetWindow == time_window

SecondOffset == delay_offset

\* The output path of the second pass (line 178).
SecondOutputSame == prompt_output

SecondOutput == delay_output

InitMain ==
    /\ singles_exists \in BOOLEAN
    /\ branches \in IF singles_exists
                     THEN BoundedSingles
                          \cup {ExampleSingles, SkipSingles}
                          \cup RoundedSingles
                          \cup MalformedSingles
                     ELSE {MkBranches(<<>>, <<>>, FALSE)}
    /\ main_pc = "check"
    /\ pc = "idle"
    /\ time_window_ns = 0 /\ offset_ns = 0
    /\ out_path = ""
    /\ times = <<>> /\ eventIDs = <<>> /\ energies = <<>>
    /\ posX = <<>> /\ posY = <<>> /\ posZ = <<>>
    /\ volumeIDs = <<>> /\ trackIDs = <<>> /\ runIDs = <<>>
    /\ sort_idx = <<>>
    /\ times_shifted = <<>>
    /\ coincidences = <<>>
    /\ i = 0 /\ j = 0 /\ t1 = FloatZero /\ n_singles = 0
    /\ pairs = <<>>
    /\ output_file = NoFile
    /\ result = NoResult
    /\ fs = [f \in OutputPaths |-> NoFile]
    /\ printed = <<>>
    /\ argsort_memo = NoMemo
    /\ n_prompt = NoResult /\ n_delay = NoResult
    /\ calls = <<>>
    /\ emitted = <<>>
    /\ visits = <<>>
    /\ StatsIdle

\* Lines 160-172: the existence check, then the call of the prompt pass.
MainCheck ==
    /\ main_pc = "check"
    /\ IF Missing(singles_exists)
       THEN /\ printed' = printed \o <<"Error: Singles file not found",
                                        "Run the main simulation first!">>
            /\ main_pc' = "returned"
            /\ UNCHANGED <<sorterLocals, pc, out_path, time_window_ns,
                           offset_ns, calls>>
       ELSE /\ printed' = Append(printed, "SORTING PROMPT COINCIDENCES")
            /\ Call(prompt_output, time_window, 0)
            /\ main_pc' = "prompt"
    /\ UNCHANGED <<branches, singles_exists, fs, argsort_memo, n_prompt,
                   n_delay, statsVars, emitted>>

\* Lines 170-180: the prompt pass has returned; call the delayed pass.
MainDelay ==
    /\ main_pc = "prompt" /\ pc = "done"
    /\ n_prompt' = result
    /\ printed' = Append(printed, "SORTING DELAYED COINCIDENCES")
    /\ Call(SecondOutput, time_window, SecondOffset)
    /\ main_pc' = "delay"
    /\ UNCHANGED <<branches, singles_exists, fs, argsort_memo, n_delay,
                   statsVars, emitted>>

\* Lines 178-189: the delayed pass has returned; print the summary.
MainEnd ==
    /\ main_pc = "delay" /\ pc = "done"
    /\ n_delay' = result
    /\ printed' = Append(printed, "COINCIDENCE SORTING COMPLETE")
    /\ main_pc' = "returned"
    /\ UNCHANGED <<branches, singles_exists, fs, argsort_memo, n_prompt,
                   calls, sorterLocals, pc, out_path, time_window_ns,
                   offset_ns, statsVars, emitted>>

\* An exception raised in sort_coincidences is not caught by main.
MainRaise ==
    /\ main_pc \in {"prompt", "delay"} /\ pc = "raised"
    /\ main_pc' = "raised"
    /\ UNCHANGED <<branches, singles_exists, fs, argsort_memo, n_prompt,
                   n_delay, calls, printed, sorterLocals, pc, out_path,
                   time_window_ns, offset_ns, statsVars, emitted>>

NextMain ==
    \/ MainCheck \/ MainDelay \/ MainEnd \/ MainRaise
    \/ Read \/ Sort \/ Shift \/ While \/ Inner \/ Advance \/ Write \/ Return

SpecMain == InitMain /\ [][NextMain]_vars

----------------------------------------------------------------------------
\* A caller that invokes sort_coincidences three times in one process: a
\* first pass, then either the same pass again or main's prompt pass, then
\* the first pass once more.

\* Inputs of the repeated passes: up to MaxLen - 1 singles, RunID present.
RepeatSingles ==
    UNION { { MkBranches(ts, vs, TRUE) :
                ts \in [1..n -> BoundedTimes], vs \in [1..n -> Detectors] } :
            n \in 0..(MaxLen - 1) }

\* The arguments of main's prompt pass (lines 170-172).
PromptArgs == [output_file |-> prompt_output, time_window_ns |-> time_window,
               offset_ns |-> 0]

InitRepeat ==
    /\ branches \in RepeatSingles
    /\ time_window_ns \in Windows \cup {time_window}
    /\ offset_ns \in Offsets
    /\ pc = "read"
    /\ times = <<>> /\ eventIDs = <<>> /\ energies = <<>>
    /\ posX = <<>> /\ posY = <<>> /\ posZ = <<>>
    /\ volumeIDs = <<>> /\ trackIDs = <<>> /\ runIDs = <<>>
    /\ sort_idx = <<>>
    /\ times_shifted = <<>>
    /\ coincidences = <<>>
    /\ i = 0 /\ j = 0 /\ t1 = FloatZero /\ n_singles = 0
    /\ pairs = <<>>
    /\ output_file = NoFile
    /\ result = NoResult
    /\ out_path = delay_output
    /\ singles_exists = TRUE
    /\ fs = [f \in OutputPaths |-> NoFile]
    /\ printed = <<>>
    /\ argsort_memo = NoMemo
    /\ main_pc = "none" /\ n_prompt = NoResult /\ n_delay = NoResult
    /\ calls = << [output_file |-> out_path, time_window_ns |-> time_window_ns,
                   offset_ns |-> offset_ns] >>
    /\ emitted = <<>>
    /\ visits = <<>>
    /\ StatsIdle

\* The pass has returned: call sort_coincidences again.
CallAgain ==
    /\ main_pc = "none" /\ pc = "done" /\ Len(calls) \in {1, 2}
    /\ \E c \in IF Len(calls) = 1 THEN {calls[1], PromptArgs}
                                   ELSE {calls[1]} :
         Call(c.output_file, c.time_window_ns, c.offset_ns)
    /\ UNCHANGED <<branches, singles_exists, fs, printed, argsort_memo,
                   main_pc, n_prompt, n_delay, statsVars, emitted>>

NextRepeat ==
    \/ CallAgain
    \/ Read \/ Sort \/ Shift \/ While \/ Inner \/ Advance \/ Write \/ Return

SpecRepeat == InitRepeat /\ [][NextRepeat]_vars

----------------------------------------------------------------------------
\* Vocabulary of the properties.  a, b are 0-based positions of the sorted
\* sequence; OrigTime is the unshifted GlobalTime of the input entry that the
\* sort put at position a.
Done == pc = "done"

Sorted == pc \notin {"read", "sort"}

Positions == 0..(Len(times) - 1)

Range(f) == { f[k] : k \in DOMAIN f }

OrigTime(a) == At(branches.GlobalTime, At(sort_idx, a))

OrigDet(a) == At(branches.PostStepUniqueVolumeID, At(sort_idx, a))

\* How the real number |y - x| compares with the window w: -1 when it is
\* smaller, 0 when it is w, 1 when it is greater.
Apart(x, y, w) == Against(Distance(x, y), w)

\* The same for the float64 value of abs(y - x), the difference rounded to
\* the nearest float.
RoundedApart(x, y, w) == Against(Difference(x, y), w)

\* The float64 value of time + offset_ns for the record at position a.
ShiftedTime(a) == Sum(OrigTime(a), offset_ns)

\* The shifted time of position a is the real number time + offset_ns.
ExactlyShifted(a) == ShiftedTime(a) = ExactSum(OrigTime(a), offset_ns)

\* The time difference computed for positions a and b, abs of the float64
\* difference of the float64 shifted times, is the real distance of their
\* unshifted times: no rounding took part.
ExactlyComputed(a, b) ==
    Difference(ShiftedTime(a), ShiftedTime(b))
        = Distance(OrigTime(a), OrigTime(b))

\* How the time difference computed for positions a and b compares with
\* the window.
ComputedApart(a, b) ==
    RoundedApart(ShiftedTime(a), ShiftedTime(b), time_window_ns)

\* a and b are on different detectors and at most the window apart.
Qualify(a, b) ==
    /\ OrigDet(a) # OrigDet(b)
    /\ Apart(OrigTime(a), OrigTime(b), time_window_ns) <= 0

\* C1 (as stated): in the prompt pass every two singles on different
\* detectors and at most W apart are emitted as a pair, the earlier one of
\* the sorted sequence as side 1.
P1_EveryQualifyingPairEmitted ==
    (Done /\ offset_ns = 0) =>
        \A a, b \in Positions : (a < b /\ Qualify(a, b)) => <<a, b>> \in Range(pairs)

\* C1 (amended): in the prompt pass, for every two singles a before b in the
\* sorted sequence, on different detectors and at most W apart, a is side 1
\* of an emitted coincidence whose side 2 is b or a qualifying record sorted
\* between a and b; (a, b) itself is emitted when no record between them
\* qualifies.
P1_EarlierSingleIsPaired ==
    (Done /\ offset_ns = 0) =>
        \A a, b \in Positions : (a < b /\ Qualify(a, b)) =>
            \E c \in (a + 1)..b :
                /\ Qualify(a, c)
                /\ <<a, c>> \in Range(pairs)
                /\ \A d \in (a + 1)..(c - 1) : ~Qualify(a, d)

\* Witness of C1: a prompt pass in which a qualifying pair (a, b) was passed
\* over because a record between them qualified first.
P1_Witness ==
    /\ Done /\ offset_ns = 0
    /\ \E a, b \in Positions :
         /\ a < b /\ Qualify(a, b) /\ <<a, b>> \notin Range(pairs)
         /\ \E c \in (a + 1)..(b - 1) : <<a, c>> \in Range(pairs)

\* C2 (as stated): with offset D the emitted pairs are those in which one
\* member's time and the other member's time translated by D differ by at
\* most W.
P4_PairsOfTranslatedTimeline ==
    Done =>
        \A a, b \in Positions : a < b =>
            (<<a, b>> \in Range(pairs) =>
                \/ Apart(ExactSum(OrigTime(a), offset_ns), OrigTime(b),
                         time_window_ns) <= 0
                \/ Apart(ExactSum(OrigTime(b), offset_ns), OrigTime(a),
                         time_window_ns) <= 0)

\* C3: no emitted coincidence has the same detector on both sides.
P2_NoSameDetectorPair ==
    \A k \in 1..Len(coincidences) :
        coincidences[k].volumeID1 # coincidences[k].volumeID2

\* Witness of C3: a finished pass over an input holding two same-detector
\* singles within the window of each other, with a coincidence emitted for
\* the earlier of them.
P2_Witness ==
    /\ Done
    /\ \E a, b \in Positions :
         /\ a < b /\ OrigDet(a) = OrigDet(b)
         /\ Apart(OrigTime(a), OrigTime(b), time_window_ns) <= 0
         /\ \E c \in Positions : c > b /\ <<a, c>> \in Range(pairs)

\* No record strictly between a and b is on another detector than a, so the
\* forward scan for a reaches b.
ScanReaches(a, b) == \A c \in (a + 1)..(b - 1) : OrigDet(c) = OrigDet(a)

\* C4 (as stated): two singles on different detectors exactly W apart are
\* paired, and two singles more than W apart are never paired.
P3_ExactlyWPaired ==
    Done =>
        /\ \A a, b \in Positions :
             (a < b /\ OrigDet(a) # OrigDet(b)
                /\ Apart(OrigTime(a), OrigTime(b), time_window_ns) = 0)
             => <<a, b>> \in Range(pairs)
        /\ \A a, b \in Positions :
             Apart(OrigTime(a), OrigTime(b), time_window_ns) > 0
             => <<a, b>> \notin Range(pairs)

\* C4 (amended): the time difference is the one the scan computes, in
\* float64 on the shifted times.  Two singles on different detectors whose
\* computed difference is exactly W are paired whenever every record sorted
\* between them is on the detector of the earlier one (so that its scan
\* reaches the later one); two singles whose computed difference is more
\* than W are never paired.  Whenever the computed difference of two singles
\* is the real distance of their unshifted times, both hold of that
\* distance.
P3_InclusiveBoundary ==
    Done =>
        /\ \A a, b \in Positions :
             (a < b /\ OrigDet(a) # OrigDet(b) /\ ScanReaches(a, b)
                /\ ComputedApart(a, b) = 0)
             => <<a, b>> \in Range(pairs)
        /\ \A a, b \in Positions :
             ComputedApart(a, b) > 0 => <<a, b>> \notin Range(pairs)
        /\ \A a, b \in Positions : ExactlyComputed(a, b) =>
             /\ (a < b /\ OrigDet(a) # OrigDet(b) /\ ScanReaches(a, b)
                   /\ Apart(OrigTime(a), OrigTime(b), time_window_ns) = 0)
                => <<a, b>> \in Range(pairs)
             /\ Apart(OrigTime(a), OrigTime(b), time_window_ns) > 0
                => <<a, b>> \notin Range(pairs)

\* Witness of C4: a finished pass with a nonzero window that emitted a pair
\* exactly W apart and left unpaired two different-detector singles further
\* apart than W, the differences computed without rounding.
P3_Witness ==
    /\ Done /\ time_window_ns > 0
    /\ \E a, b \in Positions :
         /\ <<a, b>> \in Range(pairs)
         /\ ExactlyComputed(a, b)
         /\ Apart(OrigTime(a), OrigTime(b), time_window_ns) = 0
    /\ \E a, b \in Positions :
         /\ a < b /\ OrigDet(a) # OrigDet(b)
         /\ ExactlyComputed(a, b)
         /\ Apart(OrigTime(a), OrigTime(b), time_window_ns) > 0

\* The (time1, time2) of every emitted coincidence, in order.
TimePairs == [k \in 1..Len(coincidences) |->
                <<coincidences[k].time1, coincidences[k].time2>>]

\* The float64 difference of the shifted times of coincidence c, against
\* the window.
ComputedWidth(c) ==
    RoundedApart(Sum(c.time1, offset_ns), Sum(c.time2, offset_ns),
                 time_window_ns)

\* The computed difference of coincidence c is the real number
\* |time2 - time1|.
ExactWidth(c) ==
    Difference(Sum(c.time1, offset_ns), Sum(c.time2, offset_ns))
        = Distance(c.time1, c.time2)

\* C5 (as stated): every emitted coincidence is at most W wide on the
\* unshifted times, and the four-single example with W = 120 yields exactly
\* the two coincidences (0, 50) and (1000, 1080).
WindowSoundnessUnshifted ==
    /\ \A k \in 1..Len(coincidences) :
         Apart(coincidences[k].time1, coincidences[k].time2,
               time_window_ns) <= 0
    /\ (Done /\ branches = ExampleSingles /\ time_window_ns = time_window)
         => TimePairs = <<FloatArray(<<0, 50>>), FloatArray(<<1000, 1080>>)>>

\* C5 (amended): every emitted coincidence is at most W wide in the
\* difference the scan computes, in float64 on the shifted times, which is
\* its width on the unshifted times whenever no rounding took part; the
\* four-single example with W = 120 yields exactly the two coincidences
\* (0, 50) and (1000, 1080).
WindowSoundness ==
    /\ \A k \in 1..Len(coincidences) :
         /\ ComputedWidth(coincidences[k]) <= 0
         /\ ExactWidth(coincidences[k]) =>
                Apart(coincidences[k].time1, coincidences[k].time2,
                      time_window_ns) <= 0
    /\ (Done /\ branches = ExampleSingles /\ time_window_ns = time_window)
         => TimePairs = <<FloatArray(<<0, 50>>), FloatArray(<<1000, 1080>>)>>

\* Witness of C5: the example scenario has run to its end with two
\* coincidences, each of a width computed without rounding.
WindowSoundness_Witness ==
    /\ Done /\ branches = ExampleSingles /\ time_window_ns = time_window
    /\ offset_ns = 0
    /\ Len(coincidences) = 2
    /\ \A k \in 1..Len(coincidences) : ExactWidth(coincidences[k])

\* The scan's own test on sorted positions a < b (shifted times).
Match(a, b) ==
    /\ RoundedApart(At(times_shifted, a), At(times_shifted, b),
                    time_window_ns) <= 0
    /\ At(volumeIDs, a) # At(volumeIDs, b)

\* C6: each sorted position is side 1 of at most one emitted coincidence,
\* and its side 2 is the smallest later position that is within the window
\* and on another detector.
FirstMatchWins ==
    Done =>
        /\ \A k, l \in 1..Len(pairs) : pairs[k][1] = pairs[l][1] => k = l
        /\ \A k \in 1..Len(pairs) :
             LET a == pairs[k][1]
                 b == pairs[k][2]
             IN  /\ a < b /\ b \in Positions
                 /\ Match(a, b)
                 /\ \A c \in (a + 1)..(b - 1) : ~Match(a, c)

\* Witness of C6: a finished pass in which some position had two later
\* matching records and was paired with the first of them.
FirstMatchWins_Witness ==
    /\ Done
    /\ \E a, b, c \in Positions :
         /\ a < b /\ b < c /\ Match(a, b) /\ Match(a, c)
         /\ <<a, b>> \in Range(pairs)

\* The value of a branch of the input for the entry sorted at position a.
Orig(name, a) == At(branches[name], At(sort_idx, a))

OrigRun(a) == IF "RunID" \in DOMAIN branches THEN Orig("RunID", a) ELSE 0

\* C7: every emitted coincidence carries the unshifted time and the other
\* fields of sorted record i on side 1, those of sorted record j on side 2,
\* and the runID of record i.
FieldFidelity ==
    /\ Len(coincidences) = Len(pairs)
    /\ \A k \in 1..Len(coincidences) :
         LET c == coincidences[k]
             a == pairs[k][1]
             b == pairs[k][2]
         IN  /\ c.time1 = Orig("GlobalTime", a)
             /\ c.time2 = Orig("GlobalTime", b)
             /\ c.eventID1 = Orig("EventID", a)
             /\ c.eventID2 = Orig("EventID", b)
             /\ c.energy1 = Orig("TotalEnergyDeposit", a)
             /\ c.energy2 = Orig("TotalEnergyDeposit", b)
             /\ c.globalPosX1 = Orig("PostPosition_X", a)
             /\ c.globalPosY1 = Orig("PostPosition_Y", a)
             /\ c.globalPosZ1 = Orig("PostPosition_Z", a)
             /\ c.globalPosX2 = Orig("PostPosition_X", b)
             /\ c.globalPosY2 = Orig("PostPosition_Y", b)
             /\ c.globalPosZ2 = Orig("PostPosition_Z", b)
             /\ c.volumeID1 = Orig("PostStepUniqueVolumeID", a)
             /\ c.volumeID2 = Orig("PostStepUniqueVolumeID", b)
             /\ c.trackID1 = Orig("TrackID", a)
             /\ c.trackID2 = Orig("TrackID", b)
             /\ c.runID = OrigRun(a)

\* Witness of C7: a finished delayed pass (nonzero offset) over an input
\* with a RunID branch that emitted a coincidence whose side 1 is not the
\* first input entry.
FieldFidelity_Witness ==
    /\ Done /\ offset_ns # 0 /\ "RunID" \in DOMAIN branches
    /\ \E k \in 1..Len(coincidences) : coincidences[k].runID # 50

\* C8 (as stated): the sort is stable: records with identical timestamps
\* keep their input order in the sorted sequence.
P5_StableSort ==
    Sorted =>
        \A a, b \in Positions :
            (a < b /\ At(times, a) = At(times, b)) => At(sort_idx, a) < At(sort_idx, b)

\* C9: with 0 or 1 input record the scan body is never entered, nothing is
\* emitted or written, the pass runs on to its return and returns 0.
P6_DegenerateInput ==
    ("GlobalTime" \in DOMAIN branches /\ Len(branches.GlobalTime) <= 1) =>
        /\ pc \notin {"inner", "advance"}
        /\ coincidences = <<>>
        /\ output_file = NoFile
        /\ Done \/ ENABLED Next
        /\ Done => result = 0

\* Witness of C9: a pass over a one-record input has returned 0.
P6_Witness == Done /\ Len(branches.GlobalTime) = 1 /\ result = 0

\* C10: coincidences are emitted in strictly increasing order of the sorted
\* position of their side-1 record, so time1 is non-decreasing along the
\* output list.
OutputOrdering ==
    /\ Len(coincidences) = Len(pairs)
    /\ \A k, l \in 1..Len(coincidences) : k < l =>
         /\ pairs[k][1] < pairs[l][1]
         /\ coincidences[k].eventID1 = At(eventIDs, pairs[k][1])
         /\ coincidences[l].eventID1 = At(eventIDs, pairs[l][1])
         /\ Compare(coincidences[k].time1, coincidences[l].time1) <= 0

\* Witness of C10: a finished pass that emitted two coincidences with
\* different time1.
OutputOrdering_Witness ==
    /\ Done
    /\ \E k, l \in 1..Len(coincidences) :
         k < l /\ Compare(coincidences[k].time1, coincidences[l].time1) < 0

\* The call of sort_coincidences main makes for the prompt pass and for the
\* delayed pass, as the driving procedure describes them.
PromptCall == [output_file |-> prompt_output, time_window_ns |-> 120,
               offset_ns |-> 0]

DelayedCall == [output_file |-> delay_output, time_window_ns |-> 120,
                offset_ns |-> 500]

\* C11: main calls the sorter for the prompt pass (offset 0, window 120) and,
\* only after that pass has returned, for the delayed pass (offset 500 > 120,
\* same window), each with its own output file; a main that returns with the
\* singles file present has made exactly these two calls.
DrivingProcedure ==
    /\ \/ calls = <<>>
       \/ calls = <<PromptCall>>
       \/ calls = <<PromptCall, DelayedCall>>
    /\ Len(calls) = 2 =>
         /\ n_prompt # NoResult
         /\ calls[2].offset_ns > calls[2].time_window_ns
         /\ calls[1].output_file # calls[2].output_file
         /\ n_prompt > 0 => fs[prompt_output] # NoFile
    /\ (main_pc = "returned" /\ singles_exists) =>
         /\ Len(calls) = 2
         /\ n_delay # NoResult
         /\ n_delay > 0 => fs[delay_output] # NoFile

\* Witness of C11: main has returned after two passes that both wrote
\* their own file.
DrivingProcedure_Witness ==
    /\ main_pc = "returned" /\ singles_exists
    /\ n_prompt > 0 /\ n_delay > 0
    /\ fs[prompt_output] # NoFile /\ fs[delay_output] # NoFile

\* C12: a pass that finds no pair goes on to its return, returns 0, writes
\* no output and prints "No coincidences found!".
ZeroCoincidencesNoError ==
    /\ (pc \in {"write", "return"} /\ coincidences = <<>>) => ENABLED Next
    /\ (pc \in {"return", "done"} /\ coincidences = <<>>) =>
         /\ output_file = NoFile
         /\ fs[out_path] = NoFile
         /\ \E k \in 1..Len(printed) : printed[k] = "No coincidences found!"
    /\ (Done /\ coincidences = <<>>) => result = 0

\* Witness of C12: a pass over two or more singles has returned without a
\* coincidence.
ZeroCoincidences_Witness ==
    Done /\ n_singles >= 2 /\ coincidences = <<>> /\ result = 0

\* C13: with the singles file missing main prints the error and returns;
\* sort_coincidences is never called and no output file is written.
MissingInputStops ==
    ~singles_exists =>
        /\ main_pc \in {"check", "returned"}
        /\ pc = "idle"
        /\ calls = <<>>
        /\ \A f \in OutputPaths : fs[f] = NoFile
        /\ n_prompt = NoResult /\ n_delay = NoResult
        /\ main_pc = "returned" =>
             \E k \in 1..Len(printed) :
                printed[k] = "Error: Singles file not found"

\* Witness of C13: main has returned with the singles file missing.
MissingInput_Witness == ~singles_exists /\ main_pc = "returned"

\* Some required branch is absent from the input.
LacksRequired ==
    \E f \in {"GlobalTime", "EventID", "TotalEnergyDeposit", "PostPosition_X",
              "PostPosition_Y", "PostPosition_Z", "PostStepUniqueVolumeID",
              "TrackID"} : f \notin DOMAIN branches

\* C14: an input that lacks a required branch makes the pass fail at load
\* time: nothing is sorted, examined, emitted or written.  An input that
\* lacks only RunID loads, with runID 0 for every record.
MalformedFailsFast ==
    /\ LacksRequired =>
         /\ pc \in {"read", "raised"}
         /\ times = <<>> /\ sort_idx = <<>> /\ times_shifted = <<>>
         /\ i = 0 /\ j = 0
         /\ coincidences = <<>> /\ pairs = <<>>
         /\ output_file = NoFile /\ fs[out_path] = NoFile
    /\ (~LacksRequired /\ "RunID" \notin DOMAIN branches) =>
         /\ pc # "raised"
         /\ pc # "read" =>
              /\ Len(runIDs) = Len(branches.GlobalTime)
              /\ \A k \in 1..Len(runIDs) : runIDs[k] = 0

\* Witness of C14: the pass has raised on an input without TrackID.
MalformedFailsFast_Witness ==
    pc = "raised" /\ "TrackID" \notin DOMAIN branches

\* The field names of a coincidence record as the data model enumerates
\* them.
StatedFields ==
    {"time1", "time2", "eventID1", "eventID2", "energy1", "energy2",
     "globalPosX1", "globalPosY1", "globalPosZ1",
     "globalPosX2", "globalPosY2", "globalPosZ2",
     "detectorID1", "detectorID2", "runID", "trackID1", "trackID2",
     "comptonPhantom1", "comptonPhantom2",
     "RayleighPhantom1", "RayleighPhantom2", "sourceID1", "sourceID2"}

\* The same with the detector identifiers under the names the code gives
\* them.
WrittenFields ==
    (StatedFields \ {"detectorID1", "detectorID2"})
        \cup {"volumeID1", "volumeID2"}

\* C15 (as stated): the written table is the one table Coincidences and its
\* field names are exactly those of the data model, detectorID1/2 included.
OutputSchemaAsStated ==
    output_file # NoFile =>
        /\ DOMAIN output_file = {"Coincidences"}
        /\ DOMAIN output_file.Coincidences = StatedFields

\* C15 (amended): the written table is the one table Coincidences and its
\* field names are those of the data model with the detector identifiers
\* named volumeID1 and volumeID2.
OutputSchema ==
    /\ \A k \in 1..Len(coincidences) :
         DOMAIN coincidences[k] = WrittenFields
    /\ output_file # NoFile =>
         /\ DOMAIN output_file = {"Coincidences"}
         /\ DOMAIN output_file.Coincidences = WrittenFields
         /\ \A f \in WrittenFields :
              Len(output_file.Coincidences[f]) = Len(coincidences)
         /\ fs[out_path] = output_file

\* Witness of C15: a pass has written its table.
OutputSchema_Witness == Done /\ output_file # NoFile /\ result > 0

Placeholders == {"comptonPhantom1", "comptonPhantom2", "RayleighPhantom1",
                 "RayleighPhantom2", "sourceID1", "sourceID2"}

\* C16: the six placeholder fields of every emitted coincidence, and of
\* every row of the written table, are 0.
PlaceholdersZero ==
    /\ \A k \in 1..Len(coincidences) :
         \A f \in Placeholders : coincidences[k][f] = 0
    /\ output_file # NoFile =>
         \A f \in Placeholders :
            \A k \in 1..Len(output_file.Coincidences[f]) :
               output_file.Coincidences[f][k] = 0

\* Witness of C16: a written table holds a coincidence whose event IDs are
\* not 0.
PlaceholdersZero_Witness ==
    /\ Done /\ output_file # NoFile
    /\ \E k \in 1..Len(coincidences) :
         coincidences[k].eventID1 # 0 /\ coincidences[k].eventID2 # 0

\* The pairs a pass with offset 0 emits, stated on the unshifted times of the
\* sorted sequence: for each position from a on, in order, the pair with
\* its first later position on another detector whose float64 difference
\* abs(t2 - t1) of the unshifted times is at most W, when there is one.
Least(S) == CHOOSE x \in S : \A y \in S : x <= y

QualifyingAfter(a) ==
    { b \in Positions :
        /\ b > a /\ OrigDet(a) # OrigDet(b)
        /\ RoundedApart(OrigTime(a), OrigTime(b), time_window_ns) <= 0 }

RECURSIVE PromptPairsFrom(_)
PromptPairsFrom(a) ==
    IF a > Len(times) - 1
    THEN <<>>
    ELSE (IF QualifyingAfter(a) = {}
          THEN <<>>
          ELSE << <<a, Least(QualifyingAfter(a))>> >>)
         \o PromptPairsFrom(a + 1)

\* C18 (as stated): whatever the offset, the pass emits the sequence of
\* coincidences of the offset-0 pass over the same sorted singles.
OffsetInvarianceAnyTimes ==
    Done =>
        /\ pairs = PromptPairsFrom(0)
        /\ TimePairs = [k \in 1..Len(PromptPairsFrom(0)) |->
                          <<OrigTime(PromptPairsFrom(0)[k][1]),
                            OrigTime(PromptPairsFrom(0)[k][2])>>]

\* C18 (amended): when the float64 sum time + offset of every single is the
\* real number time + offset (as it is for whole numbers of nanoseconds),
\* the pass emits the sequence of coincidences of the offset-0 pass over
\* the same sorted singles.
OffsetInvariance ==
    (Done /\ \A a \in Positions : ExactlyShifted(a)) =>
        /\ pairs = PromptPairsFrom(0)
        /\ TimePairs = [k \in 1..Len(PromptPairsFrom(0)) |->
                          <<OrigTime(PromptPairsFrom(0)[k][1]),
                            OrigTime(PromptPairsFrom(0)[k][2])>>]

\* Witness of C18: a delayed pass (offset 500) with a window below the
\* offset has emitted a coincidence.
OffsetInvariance_Witness ==
    /\ Done /\ offset_ns = delay_offset /\ time_window_ns < offset_ns
    /\ \A a \in Positions : ExactlyShifted(a)
    /\ Len(coincidences) > 0

\* C19: when a later record is within the window of record a but on the
\* same detector, a is still paired with the first later record that is
\* within the window and on another detector; the three-single example
\* pairs the first single with the third.
SameDetectorSkip ==
    /\ Done =>
         \A a, b, c \in Positions :
            ( /\ a < b /\ b < c
              /\ At(volumeIDs, a) = At(volumeIDs, b)
              /\ Match(a, c)
              /\ \A d \in (a + 1)..(c - 1) : ~Match(a, d) )
            => <<a, c>> \in Range(pairs)
    /\ (Done /\ branches = SkipSingles) =>
         /\ TimePairs[1] = FloatArray(<<0, 15>>)
         /\ \A k \in 1..Len(TimePairs) : TimePairs[k] # FloatArray(<<0, 10>>)

\* Witness of C19: the three-single example has run to its end.
SameDetectorSkip_Witness ==
    Done /\ branches = SkipSingles /\ offset_ns = 0 /\ Len(coincidences) = 2

\* Sorted positions a < b are further apart than the window.
Beyond(a, b) ==
    RoundedApart(At(times_shifted, a), At(times_shifted, b),
                 time_window_ns) > 0

\* C20: the scan with early exit emits, for every position, the pair with
\* the first matching record among all later ones, and none when no later
\* record matches; past a record beyond the window no record is within it.
EarlyExitLosesNothing ==
    Done =>
        /\ \A a \in Positions :
             LET M == { b \in Positions : b > a /\ Match(a, b) }
             IN  IF M = {}
                 THEN \A k \in 1..Len(pairs) : pairs[k][1] # a
                 ELSE <<a, Least(M)>> \in Range(pairs)
        /\ \A a, b, c \in Positions :
             (a < b /\ b < c /\ Beyond(a, b)) => Beyond(a, c)

\* Witness of C20: a finished pass in which a scan stopped at a record
\* beyond the window with a further record behind it.
EarlyExit_Witness ==
    /\ Done
    /\ \E a, b, c \in Positions : a < b /\ b < c /\ Beyond(a, b)

\* C21: no record is removed from the scan.  Every for loop, with or
\* without a pair, is followed by i += 1 and nothing else changes i; a pair
\* is appended for i with the first later matching record, records already
\* used in a coincidence included.  (That a record occurs in two emitted
\* coincidences for some inputs is the witness.)
NoRemoval ==
    [][ /\ pc = "advance" => i' = i + 1
        /\ (pc = "inner" /\ pc' # "inner") => (pc' = "advance" /\ i' = i)
        /\ pairs' # pairs =>
             /\ pairs' = Append(pairs, <<i, j>>)
             /\ j = Least({b \in Positions : b > i /\ Match(i, b)})
      ]_vars

\* Witness of C21: a finished pass in which one record is side 2 of one
\* coincidence and side 1 of a later one.
NoRemoval_Witness ==
    /\ Done
    /\ \E k, l \in 1..Len(pairs) : k < l /\ pairs[k][2] = pairs[l][1]

\* sort_idx is a permutation of the 0-based positions of the input.
IsPermutation(idx, n) ==
    /\ Len(idx) = n
    /\ \A a \in 1..n : idx[a] \in 0..(n - 1)
    /\ \A a, b \in 1..n : idx[a] = idx[b] => a = b

\* C22: from the sort on, every per-field array is the input branch
\* reordered by the one permutation sort_idx, so position a of every array
\* holds the field of input record sort_idx[a]; the times, and the shifted
\* times once computed, are non-decreasing in index order.
LockStepSort ==
    (pc \in {"shift", "while", "inner", "advance", "write", "return", "done"})
    => /\ IsPermutation(sort_idx, Len(branches.GlobalTime))
       /\ \A len \in {Len(times), Len(eventIDs), Len(energies), Len(posX),
                       Len(posY), Len(posZ), Len(volumeIDs), Len(trackIDs),
                       Len(runIDs)} :
             len = Len(branches.GlobalTime)
       /\ \A a \in Positions :
             /\ At(times, a) = Orig("GlobalTime", a)
             /\ At(eventIDs, a) = Orig("EventID", a)
             /\ At(energies, a) = Orig("TotalEnergyDeposit", a)
             /\ At(posX, a) = Orig("PostPosition_X", a)
             /\ At(posY, a) = Orig("PostPosition_Y", a)
             /\ At(posZ, a) = Orig("PostPosition_Z", a)
             /\ At(volumeIDs, a) = Orig("PostStepUniqueVolumeID", a)
             /\ At(trackIDs, a) = Orig("TrackID", a)
             /\ At(runIDs, a) = OrigRun(a)
       /\ \A a, b \in Positions :
             a < b => Compare(At(times, a), At(times, b)) <= 0
       /\ pc # "shift" =>
             /\ Len(times_shifted) = Len(times)
             /\ \A a, b \in Positions :
                   a < b => Compare(At(times_shifted, a),
                                    At(times_shifted, b)) <= 0

\* Witness of C22: the scan of a delayed pass runs over an input that the
\* sort had to reorder.
LockStepSort_Witness ==
    /\ pc = "inner" /\ offset_ns # 0
    /\ \E a \in Positions : At(sort_idx, a) # a

\* C23: the emitted sequence is a function of the singles, the window and
\* the offset.  A pass repeated on the same arguments emits what it emitted
\* the first time, whether it follows directly or after a pass with other
\* arguments (main's prompt pass before a delayed pass): no pass leaves
\* state behind that changes a later one.
PureFunction ==
    /\ Len(emitted) <= Len(calls)
    /\ (Len(emitted) >= 2 /\ calls[2] = calls[1]) => emitted[2] = emitted[1]
    /\ Len(emitted) = 3 => (calls[3] = calls[1] /\ emitted[3] = emitted[1])

\* Witness of C23: a delayed pass, main's prompt pass and the delayed pass
\* again have returned, over singles holding two records with the same
\* time that were paired.
PureFunction_Witness ==
    /\ Len(emitted) = 3 /\ calls[2] = PromptArgs /\ calls[1] # PromptArgs
    /\ calls[1].offset_ns = delay_offset
    /\ \E k \in 1..Len(emitted[3]) : emitted[3][k].time1 = emitted[3][k].time2

\* C24: the output is written in one batch.  The only step that changes the
\* output file is the write after the while loop has ended, it happens at
\* most once and stores the whole list; while the scan runs nothing is
\* written, and the list only grows at its end.
BatchWrite ==
    [][ /\ (fs' # fs \/ output_file' # output_file) =>
             /\ pc = "write" /\ pc' = "return"
             /\ ~(i < n_singles - 1)
             /\ output_file = NoFile /\ fs[out_path] = NoFile
             /\ output_file' = [Coincidences |-> CoincDict(coincidences)]
             /\ fs' = [fs EXCEPT ![out_path] = output_file']
             /\ coincidences' = coincidences
        /\ pc \in {"shift", "while", "inner", "advance"} =>
             (fs' = fs /\ output_file' = output_file)
        /\ Len(coincidences') >= Len(coincidences)
        /\ \A k \in 1..Len(coincidences) : coincidences'[k] = coincidences[k]
      ]_vars

\* Witness of C24: a pass that appended two coincidences has written them.
BatchWrite_Witness ==
    /\ Done /\ Len(coincidences) >= 2
    /\ output_file = [Coincidences |-> CoincDict(coincidences)]
    /\ fs[out_path] = output_file

\* C25: no step of sort_coincidences changes the table read from the
\* singles file, or the file: the sort, the shift and the scan work on the
\* ordering index and on reordered copies.
ReadOnlyInput ==
    [][ /\ branches' = branches
        /\ singles_exists' = singles_exists
        /\ (pc = "sort" /\ pc' = "shift") =>
             /\ times' = Take(branches.GlobalTime, sort_idx')
             /\ IsPermutation(sort_idx', Len(branches.GlobalTime))
      ]_vars

\* Witness of C25: a delayed pass that had to reorder its singles has
\* finished its scan with a coincidence, and the sorted times differ from
\* the times as read.
ReadOnlyInput_Witness ==
    /\ Done /\ offset_ns # 0 /\ Len(coincidences) > 0
    /\ times # branches.GlobalTime
    /\ times_shifted # times

\* C26: side 1 of every emitted coincidence is the record at the smaller
\* position of the sorted sequence, so time1 <= time2.
Side1Earlier ==
    /\ Len(coincidences) = Len(pairs)
    /\ \A k \in 1..Len(coincidences) :
         /\ pairs[k][1] < pairs[k][2]
         /\ coincidences[k].time1 = At(times, pairs[k][1])
         /\ coincidences[k].time2 = At(times, pairs[k][2])
         /\ Compare(coincidences[k].time1, coincidences[k].time2) <= 0

\* Witness of C26: a finished pass emitted a coincidence with time1 < time2
\* whose side 1 came after its side 2 in the input.
Side1Earlier_Witness ==
    /\ Done
    /\ \E k \in 1..Len(coincidences) :
         /\ Compare(coincidences[k].time1, coincidences[k].time2) < 0
         /\ At(sort_idx, pairs[k][1]) > At(sort_idx, pairs[k][2])

\* The pass has ended: it returned or raised.
Ended == pc \in {"done", "raised"}

\* The number of records read, 0 when the read raised.
NRead == IF LacksRequired THEN 0 ELSE Len(branches.GlobalTime)

\* Passes run to their end: over the bounded inputs of up to MaxLen - 1
\* records, and over the example and the malformed inputs.
InitFair ==
    /\ Init
    /\ branches \in BoundedSingles => branches \in RepeatSingles

\* The sequential program always takes its next step.
SpecFair == InitFair /\ [][Next]_vars /\ WF_vars(Next)

\* C27 (as stated): the pass ends; over n records there are at most n - 1
\* outer iterations, the i-th of them examines at most n - 1 - i records,
\* and at most n - 1 coincidences are emitted and counted in the result.
TerminationAsStated ==
    /\ <>Ended
    /\ [](/\ Len(visits) <= NRead - 1
          /\ \A k \in 1..Len(visits) : visits[k] <= NRead - 1 - (k - 1)
          /\ Len(coincidences) <= NRead - 1
          /\ Done => (result = Len(coincidences) /\ result <= NRead - 1))

\* C27 (amended): the same for n >= 1; over no record there is no
\* iteration and the count is 0.
Termination ==
    /\ <>Ended
    /\ [](/\ NRead >= 1 =>
               /\ Len(visits) <= NRead - 1
               /\ \A k \in 1..Len(visits) : visits[k] <= NRead - 1 - (k - 1)
               /\ Len(coincidences) <= NRead - 1
               /\ Done => (result = Len(coincidences) /\ result <= NRead - 1)
          /\ NRead = 0 =>
               /\ visits = <<>> /\ coincidences = <<>>
               /\ Done => result = 0)

\* Witness of C27: a pass over n >= 3 records has returned n - 1 after
\* n - 1 outer iterations, the first of which examined n - 1 records.
Termination_Witness ==
    /\ Done /\ NRead >= 3
    /\ Len(visits) = NRead - 1 /\ visits[1] = NRead - 1
    /\ result = NRead - 1


----------------------------------------------------------------------------
\* assert_stats(stats1, stats2, tolerance[, track_types_flag]) of the
\* verification scripts: utility.py, and the definition shared by
\* test004_simple_verify.py and test008_dose_actor_verify.py.
\* Counts are integers; a relative difference v1 / v2 * 100 - 100 and the
\* bound tolerance * 100 are floats, computed as Python computes them.  A
\* tolerance is held as the number of hundredths of its decimal literal
\* (10 for 0.1), the float being the one nearest to that many hundredths.

EmptyMap == <<>>

MkStats(r, e, t, s, perf, tt) ==
    [runs |-> r, events |-> e, tracks |-> t, steps |-> s,
     pps |-> perf[1], tps |-> perf[2], sps |-> perf[3], track_types |-> tt]

\* The track_types a Stats with t tracks is given: none, one that adds up
\* to t, one that adds up to 2.
TrackTypeChoices(t) ==
    {EmptyMap, [p \in {"gamma"} |-> t], [p \in {"gamma", "e-"} |-> 1]}

\* The tolerances assert_stats is called with: 0.0, 0.1, 0.5, 0.99, 1.0.
Tolerances == {0, 10, 50, 99, 100}

\* Counts at which a relative difference equals a tolerance of 0.1.
EdgeCounts == {10, 11}

\* rel_diff(v1, v2) / the event_d, track_d, step_d computation.
RelDiffUnguarded(v1, v2) == FloatSub(FloatMul(FloatDiv(v1, v2), 100), 100)

RelDiff(v1, v2) ==
    IF v2 # 0
    THEN FloatSub(FloatMul(FloatDiv(v1, v2), 100), 100)
    ELSE FloatOfInt(100)

\* tolerance * 100
ToleranceTimes100(tol) == FloatMul(FloatDiv(tol, 100), 100)

\* abs(d) <= tolerance * 100
WithinTolerance(d, tol) == FloatLeq(FloatAbs(d), ToleranceTimes100(tol))

\* rel_diff and the comparison, worked out once for the counts and the
\* tolerances the specifications draw from.
TabulatedCounts == (0..MaxCount) \cup EdgeCounts

TabulatedTolerances == Tolerances \cup {1, 11}

Diffs ==
    { <<k, RelDiff(k[1], k[2])>> : k \in TabulatedCounts \X TabulatedCounts }

Checks ==
    { <<k, WithinTolerance(RelDiff(k[1], k[2]), k[3])>> :
        k \in TabulatedCounts \X TabulatedCounts \X TabulatedTolerances }

\* diffs[...] = rel_diff(v1, v2)
DiffOf(v1, v2) ==
    IF <<v1, v2>> \in TabulatedCounts \X TabulatedCounts
    THEN (CHOOSE t \in Diffs : t[1] = <<v1, v2>>)[2]
    ELSE RelDiff(v1, v2)

\* b = abs(diffs[...]) <= tolerance * 100
CountCheck(v1, v2, tol) ==
    IF <<v1, v2, tol>>
         \in TabulatedCounts \X TabulatedCounts \X TabulatedTolerances
    THEN (CHOOSE t \in Checks : t[1] = <<v1, v2, tol>>)[2]
    ELSE WithinTolerance(RelDiff(v1, v2), tol)

\* n = sum(int(t) for t in stats1.track_types.values())
RECURSIVE SumValues(_)
SumValues(m) ==
    IF DOMAIN m = {}
    THEN 0
    ELSE LET k == CHOOSE x \in DOMAIN m : TRUE
         IN  m[k] + SumValues([x \in DOMAIN m \ {k} |-> m[x]])

\* utility.py, assert_stats: is_ok after the four checks.
VerdictUtility(s1, s2, tol) ==
    /\ s1.runs = s2.runs
    /\ CountCheck(s1.events, s2.events, tol)
    /\ CountCheck(s1.tracks, s2.tracks, tol)
    /\ CountCheck(s1.steps, s2.steps, tol)

\* test004 / test008, assert_stats: is_ok after the four checks, the
\* informational PPS/TPS/SPS lines and the track-type consistency check.
VerdictVerifyWithPPS(s1, s2, tol, flag) ==
    /\ s1.runs = s2.runs
    /\ CountCheck(s1.events, s2.events, tol)
    /\ CountCheck(s1.tracks, s2.tracks, tol)
    /\ CountCheck(s1.steps, s2.steps, tol)
    /\ CountCheck(s1.pps, s2.pps, tol)
    /\ (flag /\ DOMAIN s1.track_types # {}) =>
          SumValues(s1.track_types) = s1.tracks

VerdictVerify(s1, s2, tol, flag) ==
    /\ s1.runs = s2.runs
    /\ CountCheck(s1.events, s2.events, tol)
    /\ CountCheck(s1.tracks, s2.tracks, tol)
    /\ CountCheck(s1.steps, s2.steps, tol)
    /\ (flag /\ DOMAIN s1.track_types # {}) =>
          SumValues(s1.track_types) = s1.tracks

\* Neither sort_coincidences nor main is running.
SorterIdle ==
    /\ branches = MkBranches(<<>>, <<>>, FALSE)
    /\ time_window_ns = 0 /\ offset_ns = 0
    /\ pc = "idle"
    /\ times = <<>> /\ eventIDs = <<>> /\ energies = <<>>
    /\ posX = <<>> /\ posY = <<>> /\ posZ = <<>>
    /\ volumeIDs = <<>> /\ trackIDs = <<>> /\ runIDs = <<>>
    /\ sort_idx = <<>>
    /\ times_shifted = <<>>
    /\ coincidences = <<>>
    /\ i = 0 /\ j = 0 /\ t1 = FloatZero /\ n_singles = 0
    /\ pairs = <<>>
    /\ output_file = NoFile
    /\ result = NoResult
    /\ out_path = ""
    /\ singles_exists = FALSE
    /\ fs = [f \in OutputPaths |-> NoFile]
    /\ printed = <<>>
    /\ argsort_memo = NoMemo
    /\ main_pc = "none" /\ n_prompt = NoResult /\ n_delay = NoResult
    /\ calls = <<>>
    /\ emitted = <<>>
    /\ visits = <<>>

sorterVars == <<branches, time_window_ns, offset_ns, pc, sorterLocals,
                out_path, singles_exists, fs, printed, argsort_memo,
                driverVars, emitted>>

InitStats ==
    /\ SorterIdle
    /\ \E r1 \in {1, 2}, t1s, s1, t2s, s2 \in 0..MaxCount,
          e1 \in (0..MaxCount) \cup {11}, e2 \in (0..MaxCount) \cup {10},
          perf1 \in {<<0, 0, 0>>, <<1, 2, 3>>} :
         /\ variant \in {"utility", "verify"}
         /\ track_types_flag \in IF variant = "verify" THEN BOOLEAN ELSE {FALSE}
         /\ \E tt \in IF variant = "verify" THEN TrackTypeChoices(t1s)
                                         ELSE {EmptyMap} :
              stats1 = MkStats(r1, e1, t1s, s1, perf1, tt)
         /\ stats2 = MkStats(1, e2, t2s, s2, <<1, 1, 0>>, EmptyMap)
    /\ tolerance \in Tolerances
    /\ is_ok = FALSE
    /\ stats_pc = "call"
    /\ material = NoScript /\ verify = NoScript

\* utility.py, assert_stats (lines 99-135).
AssertStatsUtility ==
    /\ stats_pc = "call" /\ variant = "utility"
    /\ is_ok' = VerdictUtility(stats1, stats2, tolerance)
    /\ stats_pc' = "done"
    /\ UNCHANGED <<sorterVars, stats1, stats2, tolerance, track_types_flag,
                   variant, material, verify>>

\* test004_simple_verify.py / test008_dose_actor_verify.py, assert_stats.
AssertStatsVerify ==
    /\ stats_pc = "call" /\ variant = "verify"
    /\ is_ok' = VerdictVerify(stats1, stats2, tolerance, track_types_flag)
    /\ stats_pc' = "done"
    /\ UNCHANGED <<sorterVars, stats1, stats2, tolerance, track_types_flag,
                   variant, material, verify>>

NextStats == AssertStatsUtility \/ AssertStatsVerify

SpecStats == InitStats /\ [][NextStats]_vars

\* The relative difference of v1 to the reference v2 is at most tol
\* hundredths (a zero reference counts as a difference of 100 percent), in
\* exact arithmetic.
AtMostTolerance(v1, v2, tol) ==
    IF v2 = 0 THEN 100 <= tol
    ELSE Abs(v1 - v2) * 100 <= tol * Abs(v2)

\* The four checks the claim names.
NamedChecksPass ==
    /\ stats1.runs = stats2.runs
    /\ AtMostTolerance(stats1.events, stats2.events, tolerance)
    /\ AtMostTolerance(stats1.tracks, stats2.tracks, tolerance)
    /\ AtMostTolerance(stats1.steps, stats2.steps, tolerance)

\* The track-type consistency check of the test004 / test008 definition.
TrackTypesConsistent ==
    (variant = "verify" /\ track_types_flag /\ stats1.track_types # EmptyMap)
        => SumValues(stats1.track_types) = stats1.tracks

\* C17 (as stated): assert_stats returns True exactly when the run counts
\* are equal and events, tracks and steps are each within tolerance.
AssertStatsExactlyNamedChecks ==
    stats_pc = "done" => (is_ok <=> NamedChecksPass)

\* The four checks as the code computes them, in floats:
\* abs(v1 / v2 * 100 - 100) <= tolerance * 100.
ComputedChecksPass ==
    /\ stats1.runs = stats2.runs
    /\ CountCheck(stats1.events, stats2.events, tolerance)
    /\ CountCheck(stats1.tracks, stats2.tracks, tolerance)
    /\ CountCheck(stats1.steps, stats2.steps, tolerance)

\* C17 (amended): assert_stats returns True exactly when the run counts are
\* equal, events, tracks and steps are each within tolerance as the code
\* computes it in floats and, in the test004 / test008 definition called
\* with track_types_flag and a non-empty stats1.track_types, the track-type
\* counts add up to stats1.tracks; PPS, TPS and SPS never change the
\* verdict.
AssertStatsVerdict ==
    stats_pc = "done" =>
        (is_ok <=> (ComputedChecksPass /\ TrackTypesConsistent))

\* The float computation rejects a difference that equals the tolerance:
\* 11 events against 10 under a tolerance of 0.1 (11 / 10 * 100 - 100 is
\* 10.000000000000014).
EdgeRejected ==
    /\ stats_pc = "done" /\ ~is_ok /\ tolerance = 10
    /\ stats1.events = 11 /\ stats2.events = 10
    /\ stats1.runs = stats2.runs
    /\ stats1.tracks = stats2.tracks /\ stats2.tracks # 0
    /\ stats1.steps = stats2.steps /\ stats2.steps # 0
    /\ TrackTypesConsistent

\* Witness of C17: assert_stats returned True although the PPS, TPS and SPS
\* of the two statistics differ, with track types compared.
AssertStatsVerdict_Witness ==
    /\ stats_pc = "done" /\ is_ok
    /\ stats1.tps # stats2.tps /\ stats1.sps # stats2.sps
    /\ track_types_flag /\ stats1.track_types # EmptyMap

\* C29: with a reference count of 0 the relative difference is 100 percent
\* whatever the tested count, 0 included: nothing is divided by zero, and
\* assert_stats returns False for every tolerance below 1.0.
ZeroReference ==
    stats_pc = "done" =>
        \A f \in {"events", "tracks", "steps"} :
            /\ DiffOf(stats1[f], stats2[f]) # ZeroDivisionError
            /\ stats2[f] = 0 =>
                 /\ DiffOf(stats1[f], stats2[f]) = FloatOfInt(100)
                 /\ tolerance < 100 => ~is_ok

\* Witness of C29: tested and reference statistics agree in everything,
\* with 0 events on both sides, and assert_stats returned False under a
\* tolerance of 0.5.
ZeroReference_Witness ==
    /\ stats_pc = "done" /\ ~is_ok /\ tolerance = 50
    /\ stats1.events = 0 /\ stats2.events = 0
    /\ stats1.runs = stats2.runs
    /\ stats1.tracks = stats2.tracks /\ stats2.tracks # 0
    /\ stats1.steps = stats2.steps /\ stats2.steps # 0

----------------------------------------------------------------------------
\* test003_g4material_verify.py: main() parses the GATE output named on the
\* command line and validates the two materials.  The output is a list of
\* lines; a line names a material or none, and gives "I = <value> eV" after
\* the name or not.  Values are held in tenths of an eV.

MaxLines == 2    \* most lines of a GATE output

NoI == 0 - 1

MaterialNames == {"G4_WATER", "G4_TISSUE-PROPANE"}

Lines ==
    [name : {"G4_WATER"}, I : {NoI, 780, 787, 788}]
        \cup [name : {"G4_TISSUE-PROPANE"}, I : {NoI, 595, 602}]
        \cup [name : {"other"}, I : {NoI}]

Contents == UNION { [1..n -> Lines] : n \in 0..MaxLines }

\* re.search(name + r'.*?I\s*=\s*(\d+\.?\d*)\s*eV', content): the value of
\* the first line that names the material and gives a value.
FirstI(content, name) ==
    LET S == { k \in 1..Len(content) :
                 content[k].name = name /\ content[k].I # NoI }
    IN  IF S = {} THEN NoI ELSE content[Least(S)].I

\* name in content
Mentioned(content, name) == \E k \in 1..Len(content) : content[k].name = name

\* The dict parse_gate_output fills for one material (lines 26-41).
Properties(content, name) ==
    [key \in (IF FirstI(content, name) # NoI THEN {"mean_excitation"} ELSE {})
              \cup (IF Mentioned(content, name) THEN {"loaded"} ELSE {})
        |-> IF key = "loaded" THEN 1 ELSE FirstI(content, name)]

parse_gate_output(content) ==
    [water |-> Properties(content, "G4_WATER"),
     tissue_propane |-> Properties(content, "G4_TISSUE-PROPANE")]

\* math.isclose(imean, expected, rel_tol=0.01)
IsClose(a, b) ==
    Abs(a - b) * 100 <= (IF Abs(a) >= Abs(b) THEN Abs(a) ELSE Abs(b))

\* validate_water_properties / validate_tissue_properties: "True", "False",
\* or "raised" when the assert fails.
Validate(properties, expected) ==
    IF "loaded" \notin DOMAIN properties
    THEN "False"
    ELSE IF "mean_excitation" \in DOMAIN properties
         THEN (IF IsClose(properties.mean_excitation, expected)
               THEN "True" ELSE "raised")
         ELSE "False"

validate_water_properties(properties) == Validate(properties, 780)

validate_tissue_properties(properties) == Validate(properties, 595)

\* The variables main of test003 leaves alone.
notMaterial == <<sorterVars, stats1, stats2, tolerance, track_types_flag,
                 variant, is_ok, stats_pc, verify>>

InitMaterial ==
    /\ SorterIdle
    /\ stats1 = NoStats /\ stats2 = NoStats /\ tolerance = 0
    /\ track_types_flag = FALSE /\ variant = "none"
    /\ is_ok = FALSE /\ stats_pc = "none"
    /\ verify = NoScript
    /\ \E has_arg, readable \in BOOLEAN :
         \E content \in IF has_arg /\ readable THEN Contents ELSE {<<>>} :
            /\ has_arg \/ ~readable
            /\ material = [pc |-> "start", has_arg |-> has_arg,
                           readable |-> readable, content |-> content,
                           results |-> parse_gate_output(<<>>),
                           water |-> "none", tissue |-> "none",
                           out |-> <<>>, exit_status |-> NoResult]

\* Lines 94-113 and 124-129: the banner; without an argument the usage note,
\* and main returns.
MaterialStart ==
    /\ material.pc = "start"
    /\ material' =
         IF material.has_arg
         THEN [material EXCEPT !.pc = "parse",
                               !.out = Append(@, "Parsing GATE output from")]
         ELSE [material EXCEPT !.pc = "exited", !.exit_status = 0,
                               !.out = Append(@, "Note: Run with GATE output file")]
    /\ UNCHANGED notMaterial

\* Line 115: parse_gate_output; open() raises on an unreadable file.
MaterialParse ==
    /\ material.pc = "parse"
    /\ material' =
         IF material.readable
         THEN [material EXCEPT !.pc = "water",
                               !.results = parse_gate_output(material.content)]
         ELSE [material EXCEPT !.pc = "except"]
    /\ UNCHANGED notMaterial

\* Line 116: validate_water_properties(...); the value returned is dropped.
MaterialWater ==
    /\ material.pc = "water"
    /\ LET r == validate_water_properties(material.results.water)
       IN  material' = [material EXCEPT
                          !.water = r,
                          !.pc = IF r = "raised" THEN "except" ELSE "tissue"]
    /\ UNCHANGED notMaterial

\* Line 117: validate_tissue_properties(...); the value returned is dropped.
MaterialTissue ==
    /\ material.pc = "tissue"
    /\ LET r == validate_tissue_properties(material.results.tissue_propane)
       IN  material' = [material EXCEPT
                          !.tissue = r,
                          !.pc = IF r = "raised" THEN "except" ELSE "report"]
    /\ UNCHANGED notMaterial

\* Lines 118-120: the report, and main returns.
MaterialReport ==
    /\ material.pc = "report"
    /\ material' = [material EXCEPT !.pc = "exited", !.exit_status = 0,
                                    !.out = Append(@, "All tests passed!")]
    /\ UNCHANGED notMaterial

\* Lines 121-123: except Exception: print the error, sys.exit(1).
MaterialExcept ==
    /\ material.pc = "except"
    /\ material' = [material EXCEPT !.pc = "exited", !.exit_status = 1,
                                    !.out = Append(@, "Error during validation")]
    /\ UNCHANGED notMaterial

NextMaterial ==
    \/ MaterialStart \/ MaterialParse \/ MaterialWater \/ MaterialTissue
    \/ MaterialReport \/ MaterialExcept

SpecMaterial == InitMaterial /\ [][NextMaterial]_vars

\* The output names the material and gives its mean excitation energy.
Found(name) ==
    \E k \in 1..Len(material.content) :
        material.content[k].name = name /\ material.content[k].I # NoI

\* C28 (as stated): the script reports "All tests passed!" and exits
\* normally only when both validations succeeded; when a material or its
\* mean excitation energy is not found in the output, the run is reported
\* as failed and the exit status is not zero.
MaterialVerdict ==
    (material.pc = "exited" /\ material.has_arg) =>
        /\ ("All tests passed!" \in Range(material.out)
              /\ material.exit_status = 0)
             => (material.water = "True" /\ material.tissue = "True")
        /\ (\E name \in MaterialNames : ~Found(name))
             => /\ material.exit_status # 0
                /\ "All tests passed!" \notin Range(material.out)

----------------------------------------------------------------------------
\* The mains of the verification scripts ut_ver.py, test004_simple_verify.py
\* and test008_dose_actor_verify.py.  A statistics file is missing or holds
\* the "# key = value" lines read into raw_data; what assert_images returns
\* for each image pair is an input ("raised" when itk.imread fails).

Scripts == {"ut_ver", "test004", "test008"}

MissingFile == [missing |-> 1]

None == [none |-> 1]

\* The key = value lines of the performance figures.
PerfLines ==
    [k \in {"PPS (Primary per sec)", "TPS (Track per sec)",
            "SPS (Step per sec)"} |->
        IF k = "PPS (Primary per sec)" THEN 5
        ELSE IF k = "TPS (Track per sec)" THEN 6 ELSE 7]

StatFiles ==
    {MissingFile}
        \cup { [NumberOfRun |-> 1, NumberOfEvents |-> e, NumberOfTracks |-> 1,
                NumberOfSteps |-> 1] : e \in (0..MaxCount) \cup EdgeCounts }
        \cup { [NumberOfRun |-> 1, NumberOfEvents |-> 1, NumberOfTracks |-> 1] }
        \cup { [NumberOfRun |-> 1, NumberOfEvents |-> 1, NumberOfTracks |-> 1,
                NumberOfSteps |-> 1] @@ PerfLines }

\* raw_data.get(key, 0)
Get(raw_data, key) == IF key \in DOMAIN raw_data THEN raw_data[key] ELSE 0

\* read_gate9_stat_file(filename): None when the file does not exist.
read_gate9_stat_file(file) ==
    IF file = MissingFile
    THEN None
    ELSE MkStats(Get(file, "NumberOfRun"), Get(file, "NumberOfEvents"),
                 Get(file, "NumberOfTracks"), Get(file, "NumberOfSteps"),
                 <<Get(file, "PPS (Primary per sec)"),
                   Get(file, "TPS (Track per sec)"),
                   Get(file, "SPS (Step per sec)")>>, EmptyMap)

\* The image pairs each script compares.
ImageCount(script) ==
    IF script = "ut_ver" THEN 1 ELSE IF script = "test008" THEN 3 ELSE 0

\* The --tolerance values test004 is run with (0.01 when the option is not
\* given), in hundredths.
CommandLineTolerances == {1, 100}

\* The assert_stats call of each script: its definition, its tolerance in
\* hundredths (0.1 in ut_ver, 0.11 in test008, the one of the command line
\* in test004) and its track_types_flag (the one of the command line in
\* test004, left at False by test008).
ScriptAssertStats(script, s1, s2, tol, flag) ==
    IF script = "ut_ver" THEN VerdictUtility(s1, s2, 10)
    ELSE IF script = "test008" THEN VerdictVerify(s1, s2, 11, FALSE)
    ELSE VerdictVerify(s1, s2, tol, flag)

\* The variables the verification mains leave alone.
notVerify == <<sorterVars, stats1, stats2, tolerance, track_types_flag,
               variant, is_ok, stats_pc, material>>

InitVerify ==
    /\ SorterIdle
    /\ stats1 = NoStats /\ stats2 = NoStats /\ tolerance = 0
    /\ track_types_flag = FALSE /\ variant = "none"
    /\ is_ok = FALSE /\ stats_pc = "none"
    /\ material = NoScript
    /\ \E script \in Scripts, test_file, ref_file \in StatFiles,
          test_dir, ref_dir, flag \in BOOLEAN, tol \in CommandLineTolerances :
         \E images \in [1..ImageCount(script) -> {"True", "False", "raised"}] :
            /\ script # "test008" => (test_dir /\ ref_dir)
            /\ script # "test004" => (tol = 1 /\ ~flag)
            /\ ~test_dir => test_file = MissingFile
            /\ ~ref_dir => ref_file = MissingFile
            /\ verify = [script |-> script, pc |-> "start",
                         test_file |-> test_file, ref_file |-> ref_file,
                         test_dir |-> test_dir, ref_dir |-> ref_dir,
                         images |-> images,
                         tolerance |-> tol, track_types_flag |-> flag,
                         stats_test |-> None, stats_ref |-> None,
                         reads |-> <<>>, compared |-> <<>>, ok |-> TRUE,
                         out |-> <<>>, exit_status |-> NoResult]

\* sys.exit(status), or main returning (status 0).
Exit(v, status, line) ==
    [v EXCEPT !.pc = "exited", !.exit_status = status,
              !.out = IF line = "" THEN @ ELSE Append(@, line)]

\* The banner; test008 checks that its two directories exist (lines
\* 409-415).
VerifyStart ==
    /\ verify.pc = "start"
    /\ verify' =
         IF verify.script = "test008" /\ ~verify.ref_dir
         THEN Exit(verify, 1, "ERROR: Reference path not found")
         ELSE IF verify.script = "test008" /\ ~verify.test_dir
         THEN Exit(verify, 1, "ERROR: Test path not found")
         ELSE [verify EXCEPT !.pc = "read"]
    /\ UNCHANGED notVerify

\* The reads of the statistics files and the test on what they returned.
\* ut_ver (lines 20-25) and test008 (lines 420-425) read both files;
\* test004 (lines 279-303) reads the tested file, and the reference only
\* when it exists.
VerifyRead ==
    /\ verify.pc = "read"
    /\ LET t == read_gate9_stat_file(verify.test_file)
           r == read_gate9_stat_file(verify.ref_file)
       IN  verify' =
             IF verify.script = "ut_ver"
             THEN LET v == [verify EXCEPT !.stats_ref = r, !.stats_test = t,
                                          !.reads = <<r, t>>]
                  IN  IF r = None \/ t = None
                      THEN Exit(v, 0, "Failed to read stat files")
                      ELSE [v EXCEPT !.pc = "stats"]
             ELSE IF verify.script = "test008"
             THEN LET v == [verify EXCEPT !.stats_ref = r, !.stats_test = t,
                                          !.reads = <<r, t>>]
                  IN  IF r = None \/ t = None
                      THEN Exit(v, 1, "ERROR: Failed to read statistics files")
                      ELSE [v EXCEPT !.pc = "stats"]
             ELSE IF t = None
                  THEN Exit([verify EXCEPT !.stats_test = t, !.reads = <<t>>],
                            1, "Failed to read statistics file")
                  ELSE IF verify.ref_file # MissingFile
                       THEN [verify EXCEPT !.stats_test = t, !.stats_ref = r,
                                           !.reads = <<t, r>>, !.pc = "stats"]
                       ELSE Exit([verify EXCEPT !.stats_test = t,
                                                !.reads = <<t>>],
                                 0, "Skipping comparison")
    /\ UNCHANGED notVerify

\* The assert_stats call.
VerifyStats ==
    /\ verify.pc = "stats"
    /\ LET b == ScriptAssertStats(verify.script, verify.stats_test,
                                  verify.stats_ref, verify.tolerance,
                                  verify.track_types_flag)
       IN  verify' = [verify EXCEPT
                        !.ok = b /\ verify.ok,
                        !.compared = Append(@, IF b THEN "True" ELSE "False"),
                        !.pc = "images"]
    /\ UNCHANGED notVerify

\* The next assert_images call, or test_ok when none is left.
VerifyImages ==
    /\ verify.pc = "images"
    /\ LET done == Len(verify.compared) - 1
       IN  verify' =
             IF done < Len(verify.images)
             THEN LET b == verify.images[done + 1]
                  IN  IF b = "raised"
                      THEN Exit([verify EXCEPT !.compared = Append(@, b)],
                                1, "Traceback")
                      ELSE [verify EXCEPT
                              !.ok = (b = "True") /\ verify.ok,
                              !.compared = Append(@, b)]
             ELSE IF verify.ok
                  THEN Exit(verify, 0, "TEST PASSED")
                  ELSE Exit(verify, 1, "TEST FAILED")
    /\ UNCHANGED notVerify

NextVerify == VerifyStart \/ VerifyRead \/ VerifyStats \/ VerifyImages

SpecVerify == InitVerify /\ [][NextVerify]_vars

\* C30 (as stated): when read_gate9_stat_file returned None for the tested
\* or the reference file, the script ends with a non-zero exit status, no
\* comparison run and no TEST PASSED; when the statistics were read, the
\* exit status is 0 exactly when every comparison returned True.
UnreadableNeverPasses ==
    verify.pc = "exited" =>
        /\ None \in Range(verify.reads) =>
             /\ verify.exit_status # 0
             /\ verify.compared = <<>>
             /\ "TEST PASSED" \notin Range(verify.out)
        /\ (verify.reads # <<>> /\ None \notin Range(verify.reads)) =>
             (verify.exit_status = 0
                <=> \A k \in 1..Len(verify.compared) :
                       verify.compared[k] = "True")

\* The same for the scripts other than ut_ver.
UnreadableNeverPassesElsewhere ==
    verify.script # "ut_ver" => UnreadableNeverPasses

====
